---- MODULE Spec2Model ----
(***************************************************************************)
(* A model of the mistra time-series engine: the chunked GrowingArray and  *)
(* chunked_slicing, the Timelapse index/timestamp mapping, the Source and  *)
(* Digest of the package modules, and the Indicator base class.            *)
(*                                                                         *)
(* Python exceptions are modelled as an error tag carried in the result of *)
(* the operation; an operation that raises leaves every field it had not   *)
(* yet assigned untouched.                                                 *)
(***************************************************************************)
EXTENDS Integers, Sequences, FiniteSets, TLC

VARIABLES
    chunks,      \* GrowingArray._chunks: a sequence of chunks, each a sequence of rows
    max_stop,    \* GrowingArray._max_stop: the logical length
    max_written, \* history: the largest stop index any write call asked for
    ga_last,     \* history: the last GrowingArray call, its arguments and its outcome
    tl_interval, \* Timelapse._interval, in seconds
    tl_timestamp,\* Timelapse._get_timestamp(): the origin, in seconds
    tl_last,     \* history: the last stamp_for / index_for call and what it returned
    cd_last,     \* history: the last Candle call, its operands and what it returned
    tail_last,   \* history: the last _tail_slice / _tail_iterate call and what it returned
    tailed,      \* a source with a MovingMean and a Slope on it: the rows of the three, and their settings
    built,       \* the indicators constructed over two sources: their source, their broadcasters, the listeners
    ev,          \* an Event: its listeners, and the trigger that is running, if any
    source,      \* the package Source: _initial, its GrowingArray, _length, _linked_to, its events
    linked,      \* a second package Source, the one link and unlink are called on
    digest,      \* the package Digest of that source: _attached, its GrowingArray, _last_source_index
    root_len,    \* len() of the root source of the indicators
    inds,        \* the Indicators: _disposed, _data, _max_requested_start, _max_requested_end
    listening,   \* on_refresh_indicators of each broadcaster: the listeners in registration order
    last         \* history: the last engine call, its arguments and its outcome

gaVars == <<chunks, max_stop, max_written, ga_last>>

tlVars == <<tl_interval, tl_timestamp, tl_last>>

cdVars == <<cd_last>>

helperVars == <<tail_last, tailed, built, ev>>

mainVars == <<source, linked, digest, root_len, inds, listening, last>>

vars == <<chunks, max_stop, max_written, ga_last, tl_interval, tl_timestamp, tl_last,
          cd_last, helperVars, source, linked, digest, root_len, inds, listening, last>>

\* what the calls of one class leave alone: the objects of the other classes
outsideGA == <<tlVars, cdVars, helperVars, mainVars>>

outsideTL == <<gaVars, cdVars, helperVars, mainVars>>

outsideCandle == <<gaVars, tlVars, helperVars, mainVars>>

outsideMain == <<gaVars, tlVars, cdVars, helperVars>>

outsideTail == <<gaVars, tlVars, cdVars, tailed, built, ev, mainVars>>

outsideSeries == <<gaVars, tlVars, cdVars, tail_last, built, ev, mainVars>>

outsideBuild == <<gaVars, tlVars, cdVars, tail_last, tailed, ev, mainVars>>

outsideEvent == <<gaVars, tlVars, cdVars, tail_last, tailed, built, mainVars>>

(***************************************************************************)
(* Bounds of the model.                                                    *)
(***************************************************************************)
\* self._chunk_size, scaled down: the algorithms only divide and take remainders by it
ChunkSize == 2
\* the model reads and writes no index beyond MaxStop
MaxStop == 4
\* rows are width-1 values
Values == {1, 2}
\* Timelapse intervals are 1..MaxInterval seconds
MaxInterval == 3
\* Timelapse origins are 0..MaxOrigin seconds
MaxOrigin == 2
\* stamp_for is asked for indices 0..MaxIndex
MaxIndex == 4
\* source slots per digest bin
BinSize == 2
\* the root source of the indicators holds at most MaxLen rows
MaxLen == 3
\* one push to the root source carries 1..MaxPush rows
MaxPush == 2
\* the components of a candle are standardized prices in 1..MaxPrice
MaxPrice == 2
\* an upstream series holds at most MaxRows rows
MaxRows == 4
\* tail sizes are 1..MaxTail
MaxTail == 3
\* at most MaxBuilt indicators are constructed, each from at most MaxArgs arguments
MaxBuilt == 3
MaxArgs == 2
\* an Event holds at most MaxListeners registrations
MaxListeners == 3
\* the initial value of the source of the demo
InitialPrice == 1
\* the pushes of the demo
S1Data == <<2, 4, 6, 8, 10, 12, 14>>
S1Next == <<16, 18, 20, 22>>

\* the value an allocated, never written row holds
FillValue == 0
\* a row an indicator has written: any value but the fill value
Written == FillValue + 1
\* a row of a gathered result that no chunk was copied into (indeterminate)
Unset == 0 - 1
\* Python's None where an integer is expected
None == 0 - 2

NoError == "none"

Max(a, b) == IF a >= b THEN a ELSE b
Min(a, b) == IF a <= b THEN a ELSE b

(***************************************************************************)
(* support.chunked_slicing                                                 *)
(***************************************************************************)
RECURSIVE chunked_slicing_loop(_, _, _, _, _, _, _)
chunked_slicing_loop(current_chunk, data_index, first_iteration, stop_chunk, chunk_start_index, chunk_stop_index, chunk_size) ==
    IF current_chunk = stop_chunk /\ chunk_stop_index = 0
    THEN << >>
    ELSE LET current_chunk_ubound ==
                 IF current_chunk = stop_chunk THEN chunk_stop_index ELSE chunk_size
             current_chunk_lbound ==
                 IF first_iteration THEN chunk_start_index ELSE 0
             length == current_chunk_ubound - current_chunk_lbound
             yielded == [data_indices |-> <<data_index, data_index + length>>,
                         chunk |-> current_chunk,
                         chunk_indices |-> <<current_chunk_lbound, current_chunk_ubound>>]
         IN  IF current_chunk = stop_chunk
             THEN <<yielded>>
             ELSE <<yielded>> \o
                  \* first_iteration is passed on as it is: the loop never assigns it
                  chunked_slicing_loop(current_chunk + 1, data_index + length,
                                       first_iteration, stop_chunk, chunk_start_index,
                                       chunk_stop_index, chunk_size)

chunked_slicing(slice_start, slice_stop, chunk_size) ==
    LET start_chunk == slice_start \div chunk_size
        stop_chunk == slice_stop \div chunk_size
    IN  IF start_chunk = stop_chunk
        THEN << [data_indices |-> <<0, slice_stop - slice_start>>,
                 chunk |-> start_chunk,
                 chunk_indices |-> <<slice_start % chunk_size, slice_stop % chunk_size>>] >>
        ELSE chunked_slicing_loop(start_chunk, 0, TRUE, stop_chunk,
                                  slice_start % chunk_size, slice_stop % chunk_size,
                                  chunk_size)

(***************************************************************************)
(* growing_arrays.GrowingArray                                             *)
(***************************************************************************)
Raised(error, ch, ms) == [err |-> error, chunks |-> ch, max_stop |-> ms, out |-> << >>]

\* a chunk as _allocate creates it: chunk_size rows holding the fill value
NewChunk == [k \in 1..ChunkSize |-> FillValue]

RECURSIVE AppendChunks(_, _)
AppendChunks(ch, new_bins) ==
    IF new_bins <= 0 THEN ch ELSE AppendChunks(Append(ch, NewChunk), new_bins - 1)

\* _allocate that takes the requested stop for the logical length, whatever it was
allocate_takes_stop(ch, ms, stop) ==
    IF stop = None
    THEN Raised("TypeError", ch, ms)
    ELSE LET chunks_count == Len(ch)
             total_allocated == chunks_count * ChunkSize
             new_bins == IF stop > total_allocated
                         THEN (stop + ChunkSize - 1) \div ChunkSize - chunks_count
                         ELSE 0
         IN  [err |-> NoError, chunks |-> AppendChunks(ch, new_bins),
              max_stop |-> stop, out |-> << >>]

\* GrowingArray._allocate(stop); stop is None when the key was an integer
allocate(ch, ms, stop) ==
    IF stop = None
    THEN Raised("TypeError", ch, ms)   \* None > total_allocated
    ELSE LET chunks_count == Len(ch)
             total_allocated == chunks_count * ChunkSize
             new_bins == IF stop > total_allocated
                         THEN (stop + ChunkSize - 1) \div ChunkSize - chunks_count
                         ELSE 0
         IN  [err |-> NoError, chunks |-> AppendChunks(ch, new_bins),
              max_stop |-> Max(ms, stop), out |-> << >>]

\* one yielded (data_indices, chunk, chunk_indices) copied from data into the chunk
FillOne(ch, it, data) ==
    LET c == it.chunk + 1
        lo == it.chunk_indices[1]
        hi == it.chunk_indices[2]
        d0 == it.data_indices[1]
    IN  [ch EXCEPT ![c] = [k \in 1..ChunkSize |->
                              IF k - 1 >= lo /\ k - 1 < hi
                              THEN data[d0 + (k - 1 - lo) + 1]
                              ELSE ch[c][k]]]

RECURSIVE FillItems(_, _, _)
FillItems(ch, items, data) ==
    IF items = << >> THEN ch
    ELSE FillItems(FillOne(ch, Head(items), data), Tail(items), data)

\* GrowingArray._fill(start, stop, data): rows copied chunk by chunk
fill(ch, start, stop, data) ==
    FillItems(ch, chunked_slicing(start, stop, ChunkSize), data)

\* one yielded (data_indices, chunk, chunk_indices) copied from the chunk into the result
GatherOne(ch, it, result) ==
    LET c == it.chunk + 1
        lo == it.chunk_indices[1]
        hi == it.chunk_indices[2]
        d0 == it.data_indices[1]
    IN  [k \in 1..Len(result) |->
            IF k - 1 >= d0 /\ k - 1 < d0 + (hi - lo)
            THEN ch[c][lo + (k - 1 - d0) + 1]
            ELSE result[k]]

RECURSIVE GatherItems(_, _, _)
GatherItems(ch, items, result) ==
    IF items = << >> THEN result
    ELSE GatherItems(ch, Tail(items), GatherOne(ch, Head(items), result))

\* GrowingArray._gather(start, stop): rows copied chunk by chunk into a new array
gather(ch, ms, start, stop) ==
    LET items == chunked_slicing(start, stop, ChunkSize)
    IN  IF \E n \in 1..Len(items) : items[n].chunk + 1 > Len(ch)
        THEN Raised("IndexError", ch, ms)   \* a chunk that was never allocated
        ELSE [err |-> NoError, chunks |-> ch, max_stop |-> ms,
              out |-> GatherItems(ch, items, [k \in 1..(stop - start) |-> Unset])]

\* GrowingArray.__getitem__(slice(start, stop, 1))
getitem_slice(ch, ms, start, stop) ==
    IF start < 0 \/ stop < 0 THEN Raised("KeyError", ch, ms)
    ELSE IF stop < start THEN Raised("KeyError", ch, ms)
    ELSE IF stop = start THEN Raised(NoError, ch, ms)   \* returns None
    ELSE IF start >= ms \/ stop > stop THEN Raised("IndexError", ch, ms)
    ELSE gather(ch, ms, start, stop)

\* getitem_index without the bound on the logical length: rows of allocated chunks are read
getitem_index_reads_allocated(ch, ms, item) ==
    IF item < 0 \/ item >= Len(ch) * ChunkSize THEN Raised("IndexError", ch, ms)
    ELSE gather(ch, ms, item, item + 1)

\* GrowingArray.__getitem__(item) with an integer item: stop is None
getitem_index(ch, ms, item) ==
    LET start == item
        stop == None
    IN  IF item < 0 THEN Raised("IndexError", ch, ms)
        ELSE IF start >= ms THEN Raised("IndexError", ch, ms)
        ELSE IF stop = None THEN Raised("TypeError", ch, ms)   \* None > None
        ELSE gather(ch, ms, start, stop)

\* GrowingArray.__setitem__, self._fill(start, stop, value) after self._allocate(stop)
allocated_fill(allocated, start, stop, value) ==
    IF allocated.err # NoError THEN allocated
    ELSE [allocated EXCEPT !.chunks = fill(allocated.chunks, start, stop, value)]

\* GrowingArray.__setitem__(slice(start, stop, 1), value)
setitem_slice(ch, ms, start, stop, value) ==
    IF start < 0 \/ stop < 0 THEN Raised("KeyError", ch, ms)
    ELSE IF stop < start THEN Raised("KeyError", ch, ms)
    ELSE IF stop = start THEN Raised(NoError, ch, ms)
    ELSE IF Len(value) # stop - start THEN Raised("TypeError", ch, ms)
    ELSE allocated_fill(allocate(ch, ms, stop), start, stop, value)

\* GrowingArray.__setitem__(key, value) with an integer key: stop is None
setitem_index(ch, ms, key, value) ==
    LET start == key
        stop == None
    IN  IF key < 0 THEN Raised("IndexError", ch, ms)
        ELSE allocated_fill(allocate(ch, ms, stop), start, start + 1, <<value>>)

\* the row at index k of the allocated storage
RowAt(ch, k) == ch[(k \div ChunkSize) + 1][(k % ChunkSize) + 1]

CeilDiv(n, d) == (n + d - 1) \div d

(***************************************************************************)
(* timelapses.Timelapse: the index <-> timestamp mapping.  Time stamps are *)
(* whole seconds; a timedelta is their difference.                         *)
(***************************************************************************)
\* mistra/core/timelapses.py: stamp_for(index), the same in package/timelapses.py
stamp_for(timestamp, interval, index) == timestamp + index * interval

\* mistra/core/timelapses.py: int((stamp - origin).total_seconds()) // int(interval)
index_for(timestamp, interval, stamp) == (stamp - timestamp) \div interval

\* package/timelapses.py: (stamp - origin).total_seconds() / int(interval), a true
\* division: the quotient is kept as the pair it is the ratio of
package_index_for(timestamp, interval, stamp) ==
    [num |-> stamp - timestamp, den |-> interval]

\* Python's q == i for the quotient of a true division and an integer
QuotientEquals(q, i) == q.num = i * q.den

TLIdle ==
    /\ tl_interval = 1
    /\ tl_timestamp = 0
    /\ tl_last = [op |-> "init", index |-> 0, offset |-> 0, stamp |-> 0,
                  core |-> 0, package |-> [num |-> 0, den |-> 1]]

\* Timelapse.__init__ with an interval and an origin
TLInit ==
    /\ tl_interval \in 1..MaxInterval
    /\ tl_timestamp \in 0..MaxOrigin
    /\ tl_last = [op |-> "init", index |-> 0, offset |-> 0, stamp |-> tl_timestamp,
                  core |-> 0, package |-> [num |-> 0, den |-> tl_interval]]

\* stamp = timelapse.stamp_for(index)
StampFor ==
    \E index \in 0..MaxIndex :
        /\ tl_last' = [tl_last EXCEPT !.op = "stamp_for", !.index = index, !.offset = 0,
                           !.stamp = stamp_for(tl_timestamp, tl_interval, index)]
        /\ UNCHANGED <<tl_interval, tl_timestamp, outsideTL>>

\* timelapse.index_for(stamp + offset) for the stamp stamp_for returned last
IndexFor ==
    \E offset \in 0..MaxInterval :
        /\ tl_last.op # "init"
        /\ tl_last' = [tl_last EXCEPT !.op = "index_for", !.offset = offset,
                           !.core = index_for(tl_timestamp, tl_interval, tl_last.stamp + offset),
                           !.package = package_index_for(tl_timestamp, tl_interval, tl_last.stamp + offset)]
        /\ UNCHANGED <<tl_interval, tl_timestamp, outsideTL>>

(***************************************************************************)
(* events.Event: an ordered list of listeners.                             *)
(***************************************************************************)
\* Event.register(listener)
register(listeners, listener) == Append(listeners, listener)

RECURSIVE unregister(_, _)
\* Event.unregister(listener): one occurrence is removed
unregister(listeners, listener) ==
    IF listeners = << >> THEN << >>
    ELSE IF Head(listeners) = listener THEN Tail(listeners)
    ELSE <<Head(listeners)>> \o unregister(Tail(listeners), listener)

(***************************************************************************)
(* pricing.Candle                                                          *)
(***************************************************************************)
\* Candle(start, end, min, max)
Candle(start, end, min, max) == [start |-> start, end |-> end, min |-> min, max |-> max]

\* Candle.constant(v): the four components equal v
constant(v) == Candle(v, v, v, v)

\* Candle.merge with the latest maximum instead of the running one
merge_latest_max(candle, other) ==
    Candle(candle.start, other.end, Min(candle.min, other.min), other.max)

\* Candle.merge(other): first start, latest end, running extremes
merge(candle, other) ==
    Candle(candle.start, other.end, Min(candle.min, other.min), Max(candle.max, other.max))

\* the candles over the prices 1..MaxPrice, and the ones with min <= start, end <= max
Prices == 1..MaxPrice

Candles == [start : Prices, end : Prices, min : Prices, max : Prices]

IsCandle(candle) ==
    /\ candle.min <= candle.start /\ candle.start <= candle.max
    /\ candle.min <= candle.end /\ candle.end <= candle.max

\* the record of a Candle call: the operands, merge(merge(a, b), c), merge(a, merge(b, c)),
\* and out, the value returned (merge(a, b), or constant(value))
CandleCall(op, a, b, c, value, out) ==
    [op |-> op, a |-> a, b |-> b, c |-> c, value |-> value, out |-> out,
     left |-> merge(merge(a, b), c), right |-> merge(a, merge(b, c))]

\* no Candle call is made
CandleIdle ==
    cd_last = CandleCall("none", constant(InitialPrice), constant(InitialPrice),
                         constant(InitialPrice), InitialPrice, constant(InitialPrice))

\* two candles are at hand, none merged yet
CandleInit ==
    cd_last \in {CandleCall("none", a, b, a, InitialPrice, a) : a \in Candles, b \in Candles}

\* a.merge(b), and with a third candle c, a.merge(b).merge(c) and a.merge(b.merge(c))
Merge ==
    /\ cd_last.op = "none"
    /\ \E c \in Candles :
           cd_last' = CandleCall("merge", cd_last.a, cd_last.b, c, cd_last.value,
                                 merge(cd_last.a, cd_last.b))
    /\ UNCHANGED outsideCandle

\* Candle.constant(v)
Constant ==
    /\ cd_last.op = "none"
    /\ \E v \in Prices :
           cd_last' = CandleCall("constant", constant(v), constant(v), constant(v), v, constant(v))
    /\ UNCHANGED outsideCandle

(***************************************************************************)
(* package.sources.Source and package.digests.Digest                       *)
(***************************************************************************)
\* Python's int(): the quotient n / d truncated towards zero
TruncDiv(n, d) == IF n >= 0 THEN n \div d ELSE 0 - ((0 - n) \div d)

\* GrowingArray.__setitem__(slice(start, stop), value): a slice written as
\* [start:stop] has step None
setitem_plain_slice(ch, ms, start, stop, value) ==
    IF start < 0 \/ stop < 0 THEN Raised("KeyError", ch, ms)
    ELSE IF stop < start THEN Raised("KeyError", ch, ms)
    ELSE IF stop = start THEN Raised(NoError, ch, ms)
    ELSE Raised("KeyError", ch, ms)   \* None != 1

\* GrowingArray.__getitem__(item) with a float item
getitem_float(ch, ms, item) == Raised("TypeError", ch, ms)

RECURSIVE interpolate_loop(_, _, _, _, _, _, _)
\* the loop of Source._interpolate over index in range(0, distance - 1)
interpolate_loop(r, index, distance, previous_value, start, next_value, stop_at) ==
    IF index >= stop_at \/ r.err # NoError THEN r
    ELSE interpolate_loop(
             setitem_index(r.chunks, r.max_stop, start + index,
                           TruncDiv((next_value - previous_value) * (index + 1)
                                        + previous_value * distance, distance)),
             index + 1, distance, previous_value, start, next_value, stop_at)

\* Source._interpolate(previous_value, start, end, next_value) for integer prices
interpolate(ch, ms, previous_value, start, end, next_value) ==
    LET distance == end - start + 1
    IN  interpolate_loop(Raised(NoError, ch, ms), 0, distance, previous_value,
                         start, next_value, distance - 1)

\* Source._interpolate_and_put, the insertion that follows the interpolation
put_insertion(interpolated, push_index, push_data) ==
    IF interpolated.err # NoError THEN interpolated
    ELSE IF push_data.is_ndarray
    THEN setitem_plain_slice(interpolated.chunks, interpolated.max_stop, push_index,
                             push_index + Len(push_data.rows), push_data.rows)
    ELSE setitem_index(interpolated.chunks, interpolated.max_stop, push_index,
                       push_data.rows[1])

\* Source._interpolate_and_put, the interpolation that follows the read of left_side
put_interpolation(src, length, left_side, push_index, right_side) ==
    IF ~(push_index - 1 > length) THEN Raised(NoError, src.chunks, src.max_stop)
    ELSE IF length = 0 - 1 /\ left_side = None
    THEN Raised("RuntimeError", src.chunks, src.max_stop)
    ELSE interpolate(src.chunks, src.max_stop, left_side, length + 1, push_index,
                     right_side)

\* Source._interpolate_and_put once left_side was read
put_after_read(src, left_read, push_index, push_data) ==
    IF left_read.err # NoError THEN left_read
    ELSE put_insertion(put_interpolation(src, src.length, left_read.out[1], push_index,
                                         push_data.rows[1]),
                       push_index, push_data)

\* Source._interpolate_and_put(push_index, push_data): left_side is self._initial
\* if len(self) == -1, else self._data[len(self)]
interpolate_and_put(src, push_index, push_data) ==
    put_after_read(src,
                   IF src.length = 0 - 1
                   THEN [Raised(NoError, src.chunks, src.max_stop) EXCEPT
                             !.out = <<src.initial>>]
                   ELSE getitem_index(src.chunks, src.max_stop, src.length),
                   push_index, push_data)

\* Digest._relative_bin_size: int(interval) / int(source.interval), a float
relative_bin_size == [float |-> TRUE, value |-> BinSize]

\* start // self._relative_bin_size: the floor of a division by a float is a float
FloorDivFloat(n, r) == [float |-> r.float, value |-> n \div r.value]

\* self._data[digest_index] of the digest
digest_getitem(dg, digest_index) ==
    IF digest_index.float
    THEN getitem_float(dg.chunks, dg.max_stop, digest_index.value)
    ELSE getitem_index(dg.chunks, dg.max_stop, digest_index.value)

\* self._data[digest_index] = candle of the digest
digest_setitem(dg, digest_index, candle) ==
    IF digest_index.float
    THEN Raised("TypeError", dg.chunks, dg.max_stop)
    ELSE setitem_index(dg.chunks, dg.max_stop, digest_index.value, candle)

RECURSIVE digest_fold(_, _, _, _)

\* Digest._on_refresh, the loop body once the candle was written
fold_next(dg, src, source_index, end, written) ==
    IF written.err # NoError THEN [digest |-> dg, err |-> written.err]
    ELSE digest_fold([dg EXCEPT !.chunks = written.chunks, !.max_stop = written.max_stop],
                     src, source_index + 1, end)

\* Digest._on_refresh, the loop body once the source element was read
fold_element(dg, src, source_index, end, digest_index, candle, source_read) ==
    IF source_read.err # NoError THEN [digest |-> dg, err |-> source_read.err]
    ELSE fold_next(dg, src, source_index, end,
                   digest_setitem(dg, digest_index,
                                  IF candle = None
                                  THEN constant(source_read.out[1])
                                  ELSE merge(candle, constant(source_read.out[1]))))

\* Digest._on_refresh, the loop body once the candle of the bin was read
fold_candle(dg, src, source_index, end, digest_index, candle_read) ==
    IF candle_read.err # NoError THEN [digest |-> dg, err |-> candle_read.err]
    ELSE fold_element(dg, src, source_index, end, digest_index, candle_read.out[1],
                      getitem_index(src.chunks, src.max_stop, source_index))

\* the bin source_index falls into
fold_bin(dg, src, source_index, end, digest_index) ==
    fold_candle(dg, src, source_index, end, digest_index,
                digest_getitem(dg, digest_index))

\* the loop of Digest._on_refresh over source_index in range(start, end): the
\* result is the digest and the error that ended the loop
digest_fold(dg, src, source_index, end) ==
    IF source_index >= end THEN [digest |-> dg, err |-> NoError]
    ELSE fold_bin(dg, src, source_index, end,
                  FloorDivFloat(source_index, relative_bin_size))

\* Digest._on_refresh after the loop: _last_source_index; on_refresh_linked_sources
\* has no listener, as no link gets as far as registering one
refreshed(folded, end) ==
    IF folded.err # NoError THEN folded
    ELSE [digest |-> [folded.digest EXCEPT !.last_source_index = Max(@, end - 1)],
          err |-> NoError]

\* Digest._on_refresh(start, end)
digest_on_refresh(dg, src, start, end) == refreshed(digest_fold(dg, src, start, end), end)

RECURSIVE trigger_digests(_, _, _, _, _)

\* the trigger goes on with the next listener unless this one raised
next_digest(r, listeners, src, start, end) ==
    IF r.err # NoError THEN r
    ELSE trigger_digests(listeners, r.digest, src, start, end)

\* on_refresh_digests.trigger(start, end): the listeners in registration order; an
\* exception of a listener ends the trigger
trigger_digests(listeners, dg, src, start, end) ==
    IF listeners = << >> THEN [digest |-> dg, err |-> NoError]
    ELSE next_digest(digest_on_refresh(dg, src, start, end), Tail(listeners), src,
                     start, end)

\* Source.push after the digests were triggered: on_refresh_indicators.trigger
push_result(stored, digests, at, end) ==
    IF digests.err # NoError
    THEN [source |-> stored, digest |-> digests.digest,
          triggered |-> <<[event |-> "on_refresh_digests", start |-> at, end |-> end]>>,
          err |-> digests.err]
    ELSE [source |-> stored, digest |-> digests.digest,
          triggered |-> <<[event |-> "on_refresh_digests", start |-> at, end |-> end],
                          [event |-> "on_refresh_indicators", start |-> at, end |-> end]>>,
          err |-> NoError]

\* Source.push after _interpolate_and_put: on_refresh_digests.trigger(index, end)
push_triggers(src, dg, stored, at, end) ==
    push_result(stored, trigger_digests(src.on_refresh_digests, dg, stored, at, end),
                at, end)

\* Source.push once _interpolate_and_put returned or raised
push_put(src, dg, put, at, end) ==
    IF put.err # NoError
    THEN [source |-> src, digest |-> dg, triggered |-> << >>, err |-> put.err]
    ELSE push_triggers(src, dg,
                       [src EXCEPT !.chunks = put.chunks, !.max_stop = put.max_stop],
                       at, end)

\* Source.push at the index it resolved
push_at(src, dg, data, at) ==
    IF at < 0
    THEN [source |-> src, digest |-> dg, triggered |-> << >>, err |-> "IndexError"]
    ELSE push_put(src, dg, interpolate_and_put(src, at, data), at,
                  at + (IF data.is_ndarray THEN Len(data.rows) ELSE 1))

\* Source.push(data, index): the source, the digest, the events triggered, the error
push(src, dg, data, index) ==
    push_at(src, dg, data, IF index = None THEN src.length ELSE index)

\* Source.unlink(): self._linked_to.unregister(...), with self._linked_to None
\* unless a link got as far as setting it
unlink(src, dg) ==
    IF src.linked_to = "None"
    THEN [linked |-> src, digest |-> dg, err |-> "AttributeError"]
    ELSE [linked |-> [src EXCEPT !.linked_to = "None"],
          digest |-> [dg EXCEPT !.on_refresh_linked_sources = unregister(@, "linked")],
          err |-> NoError]

\* Source.link after the checks: the handler is registered, then called as
\* self._on_linked_refresh(digest.timestamp, 0, len(digest)); the handler takes the
\* time stamp for the digest and asks index_for for the time stamp's own timestamp
link_registered(src, dg) ==
    [linked |-> [src EXCEPT !.linked_to = "digest"],
     digest |-> [dg EXCEPT !.on_refresh_linked_sources = register(@, "linked")],
     err |-> "TypeError"]

\* Source.link once self.unlink() returned or raised: the checks of the digest
link_unlinked(unlinked, timestamp_ok, interval_ok) ==
    IF unlinked.err # NoError THEN unlinked
    ELSE IF ~timestamp_ok THEN [unlinked EXCEPT !.err = "ValueError"]
    ELSE IF ~interval_ok THEN [unlinked EXCEPT !.err = "ValueError"]
    ELSE link_registered(unlinked.linked, unlinked.digest)

\* Source.link(digest): it starts with self.unlink(); timestamp_ok is
\* digest.timestamp >= self._timestamp, interval_ok is digest.interval >= self.interval
link(src, dg, timestamp_ok, interval_ok) ==
    link_unlinked(unlink(src, dg), timestamp_ok, interval_ok)

\* Digest.detach() without the unregister: the flag falls, the handler stays
detach_keeps_listening(src, dg) ==
    [source |-> src, digest |-> [dg EXCEPT !.attached = FALSE]]

\* Digest.detach(): self._source.on_refresh_digests.unregister(self._on_refresh),
\* then self._attached = False
detach(src, dg) ==
    [source |-> [src EXCEPT !.on_refresh_digests = unregister(@, "digest")],
     digest |-> [dg EXCEPT !.attached = FALSE]]

(***************************************************************************)
(* mistra.core.indicators.Indicator over the demo network of               *)
(* base_indicators.py: identity and movmean read the source, merger reads  *)
(* movmean and identity.                                                   *)
(***************************************************************************)
Indicators == {"identity", "movmean", "merger"}

\* the broadcasters each indicator was created with
Broadcasters(i) ==
    CASE i = "identity" -> {"root"}
      [] i = "movmean" -> {"root"}
      [] i = "merger" -> {"movmean", "identity"}

\* min(r for r in requested.values())
MinOf(requested) ==
    CHOOSE m \in {requested[b] : b \in DOMAIN requested} :
        \A b \in DOMAIN requested : m <= requested[b]

\* self._data[start:end] = rows of an indicator: the write of the GrowingArray,
\* which allocates up to end and copies the rows
indicator_written(me, w) ==
    [ind |-> [me EXCEPT !.chunks = w.chunks, !.max_stop = w.max_stop], err |-> w.err]

indicator_write(me, start, end) ==
    indicator_written(me, setitem_slice(me.chunks, me.max_stop, start, end,
                                        [k \in 1..(end - start) |-> Written]))

\* an _update that returns without writing its rows
update_skips_write(ind_states, i, start, end) == [ind |-> ind_states[i], err |-> NoError]

\* Identity._update, MovingMean._update and Merger._update of base_indicators.py:
\* the rows [start, end) are read from the broadcasters and written to self._data
update(ind_states, i, start, end) ==
    LET me == ind_states[i]
    IN  IF i = "movmean" /\ start >= end
        THEN [ind |-> me, err |-> NoError]               \* range(start, end) is empty
        ELSE IF \E b \in Broadcasters(i) \cap Indicators : ind_states[b].disposed
        THEN [ind |-> me, err |-> "RuntimeError"]        \* Indicator.__getitem__ of a disposed one
        ELSE IF me.released
        THEN [ind |-> me, err |-> "TypeError"]           \* self._data is None
        ELSE indicator_write(me, start, end)

\* the calls Event.trigger(dependency, start, end) makes: one per listener, in
\* registration order
Calls(listeners, dependency, start, end) ==
    [k \in 1..Len(listeners) |->
        [indicator |-> listeners[k], dependency |-> dependency,
         start |-> start, end |-> end]]

\* Indicator._on_dependency_update after self._update(current_start, current_end)
dependency_updated(requested, i, current_start, current_end, updated) ==
    [inds |-> IF updated.err # NoError THEN requested
              ELSE [requested EXCEPT ![i] = updated.ind],
     err |-> updated.err, start |-> current_start, end |-> current_end]

\* Indicator._on_dependency_update once the window is known
dependency_update(requested, i, current_start, current_end) ==
    dependency_updated(requested, i, current_start, current_end,
                       update(requested, i, current_start, current_end))

\* Indicator._on_dependency_update without the running maxima: the reported window
\* is updated and re-broadcast as it came
on_dependency_update_as_reported(ind_states, i, dependency, start, end) ==
    dependency_update(ind_states, i, start, end)

\* Indicator._on_dependency_update that takes the smallest running maximum of the
\* starts for the start of the window, without comparing it with the reported start
on_dependency_update_from_maximum(ind_states, i, dependency, start, end) ==
    LET me == ind_states[i]
        max_requested_end ==
            [me.max_requested_end EXCEPT ![dependency] = Max(end, @)]
        max_requested_start ==
            [me.max_requested_start EXCEPT ![dependency] = Max(start, @)]
    IN  dependency_update([ind_states EXCEPT
                               ![i].max_requested_end = max_requested_end,
                               ![i].max_requested_start = max_requested_start],
                          i, MinOf(max_requested_start), Min(MinOf(max_requested_end), end))

\* Indicator._on_dependency_update(dependency, start, end) of indicator i up to its
\* own trigger: the window it updates and re-broadcasts
on_dependency_update(ind_states, i, dependency, start, end) ==
    LET me == ind_states[i]
        max_requested_end ==
            [me.max_requested_end EXCEPT ![dependency] = Max(end, @)]
        minimum_requested_end == MinOf(max_requested_end)
        current_end == Min(minimum_requested_end, end)
        max_requested_start ==
            [me.max_requested_start EXCEPT ![dependency] = Max(start, @)]
        minimum_requested_start == MinOf(max_requested_start)
        current_start == Min(minimum_requested_start, start)
    IN  dependency_update([ind_states EXCEPT
                               ![i].max_requested_end = max_requested_end,
                               ![i].max_requested_start = max_requested_start],
                          i, current_start, current_end)

\* len(dependency) when a listener is called: how far the dependency has written
\* (the root source stores its rows before it triggers)
dependency_len(ind_states, call) ==
    IF call.dependency \in Indicators THEN ind_states[call.dependency].max_stop
    ELSE call.end

RECURSIVE trigger(_, _, _)

\* a listener that returns without triggering its own on_refresh_indicators
triggered_listener_silent(st, events, pending, call, r) ==
    trigger([inds |-> r.inds, err |-> r.err,
             updates |-> Append(st.updates,
                                [indicator |-> call.indicator, dependency |-> call.dependency,
                                 reported_start |-> call.start, reported_end |-> call.end,
                                 dependency_len |-> dependency_len(st.inds, call),
                                 start |-> r.start, end |-> r.end, err |-> r.err])],
            events, Tail(pending))

\* Event.trigger after a listener returned or raised: its own trigger comes next
triggered_listener(st, events, pending, call, r) ==
    trigger([inds |-> r.inds, err |-> r.err,
             updates |-> Append(st.updates,
                                [indicator |-> call.indicator, dependency |-> call.dependency,
                                 reported_start |-> call.start, reported_end |-> call.end,
                                 dependency_len |-> dependency_len(st.inds, call),
                                 start |-> r.start, end |-> r.end, err |-> r.err])],
            events,
            Calls(events[call.indicator], call.indicator, r.start, r.end) \o Tail(pending))

\* one listener of an on_refresh_indicators event is called
trigger_listener(st, events, pending, call) ==
    triggered_listener(st, events, pending, call,
                       on_dependency_update(st.inds, call.indicator, call.dependency,
                                            call.start, call.end))

\* Event.trigger of the on_refresh_indicators events: pending holds the listener
\* calls still to make, outermost trigger last; a listener's own trigger runs before
\* the next listener of the event that called it, and an exception ends them all
trigger(st, events, pending) ==
    IF pending = << >> \/ st.err # NoError THEN st
    ELSE trigger_listener(st, events, pending, Head(pending))

\* Indicator.dispose(): the flag is set and the data released, then
\* self._broadcasters_read, just set to None, is asked for its keys()
dispose(me) ==
    IF me.disposed THEN [ind |-> me, err |-> NoError]
    ELSE [ind |-> [me EXCEPT !.disposed = TRUE, !.released = TRUE],
          err |-> "AttributeError"]

\* Source.push(rows, index) of mistra.core.sources: the rows are stored at
\* [index, index + n) and on_refresh_indicators is triggered with that window
root_pushed(length, st, index, end) ==
    [length |-> Max(length, end), inds |-> st.inds, err |-> st.err,
     updates |-> st.updates,
     triggered |-> <<[event |-> "on_refresh_indicators", start |-> index, end |-> end]>>]

root_push(length, ind_states, events, n, index) ==
    root_pushed(length,
                trigger([inds |-> ind_states, err |-> NoError, updates |-> << >>],
                        events, Calls(events["root"], "root", index, index + n)),
                index, index + n)

\* GrowingArray.__init__
GAInit ==
    /\ chunks = << >>
    /\ max_stop = 0
    /\ max_written = 0
    /\ ga_last = [op |-> "init", start |-> 0, stop |-> 0, value |-> << >>,
                  err |-> NoError, out |-> << >>, pre_stop |-> 0, pre_n |-> 0]

GACall(name, start, stop, value, r) ==
    /\ chunks' = r.chunks
    /\ max_stop' = r.max_stop
    /\ ga_last' = [op |-> name, start |-> start, stop |-> stop, value |-> value,
                   err |-> r.err, out |-> r.out,
                   pre_stop |-> max_stop, pre_n |-> Len(chunks)]
    /\ UNCHANGED outsideGA

\* array[start:stop] = rows
SetSlice ==
    \E start \in 0..MaxStop, stop \in 0..MaxStop :
        /\ start <= stop
        /\ \E rows \in [1..(stop - start) -> Values] :
               GACall("set_slice", start, stop, rows,
                      setitem_slice(chunks, max_stop, start, stop, rows))
        /\ max_written' = IF start < stop THEN Max(max_written, stop) ELSE max_written

\* array[index] = row
SetIndex ==
    \E index \in 0..(MaxStop - 1), row \in Values :
        /\ GACall("set", index, index + 1, <<row>>,
                  setitem_index(chunks, max_stop, index, row))
        /\ max_written' = Max(max_written, index + 1)

\* array[start:stop]
GetSlice ==
    \E start \in 0..MaxStop, stop \in 0..MaxStop :
        /\ start <= stop
        /\ GACall("get_slice", start, stop, << >>,
                  getitem_slice(chunks, max_stop, start, stop))
        /\ UNCHANGED max_written

\* array[index]
GetIndex ==
    \E index \in 0..(MaxStop - 1) :
        /\ GACall("get", index, index + 1, << >>,
                  getitem_index(chunks, max_stop, index))
        /\ UNCHANGED max_written

(***************************************************************************)
(* The engine: a package Source with its Digest, and the indicator network *)
(* over its root source.                                                   *)
(***************************************************************************)
\* the state __init__ leaves: Source(dtype, stamp, interval, initial), Digest(source,
\* interval), then Identity(root), MovingMean(root, 2), Merger(movmean, identity)
\* over an empty root source
Constructed(initial) ==
    /\ source = [initial |-> initial, chunks |-> << >>, max_stop |-> 0, length |-> 0,
                 linked_to |-> "None",
                 on_refresh_digests |-> register(<< >>, "digest"),
                 on_refresh_indicators |-> << >>]
    /\ linked = [initial |-> initial, chunks |-> << >>, max_stop |-> 0, length |-> 0,
                 linked_to |-> "None", on_refresh_digests |-> << >>,
                 on_refresh_indicators |-> << >>]
    /\ digest = [attached |-> TRUE, chunks |-> << >>, max_stop |-> 0, length |-> 0,
                 last_source_index |-> 0 - 1, on_refresh_linked_sources |-> << >>]
    /\ root_len = 0
    /\ inds = [i \in Indicators |->
                 [disposed |-> FALSE, released |-> FALSE, chunks |-> << >>, max_stop |-> 0,
                  max_requested_start |-> [b \in Broadcasters(i) |-> 0],
                  max_requested_end |-> [b \in Broadcasters(i) |-> 0]]]
    /\ listening = [b \in Indicators \cup {"root"} |->
                      CASE b = "root" -> register(register(<< >>, "identity"), "movmean")
                        [] b = "identity" -> register(<< >>, "merger")
                        [] b = "movmean" -> register(<< >>, "merger")
                        [] b = "merger" -> << >>]
    /\ last = [op |-> "init", target |-> "none", is_ndarray |-> FALSE, rows |-> << >>,
               index |-> None, err |-> NoError, triggered |-> << >>, updates |-> << >>,
               pre_len |-> 0, left |-> None, attached |-> TRUE,
               timestamp_ok |-> TRUE, interval_ok |-> TRUE]

MainIdle == Constructed(None)

MainInit == \E initial \in {None, InitialPrice} : Constructed(initial)

Called(op, target, err) ==
    [op |-> op, target |-> target, is_ndarray |-> FALSE, rows |-> << >>,
     index |-> None, err |-> err, triggered |-> << >>, updates |-> << >>,
     pre_len |-> 0, left |-> None, attached |-> digest.attached,
     timestamp_ok |-> TRUE, interval_ok |-> TRUE]

\* what push is called with: a scalar price, or an array of prices
PushData ==
    {[is_ndarray |-> FALSE, rows |-> <<v>>] : v \in Values}
        \cup {[is_ndarray |-> TRUE, rows |-> rows] : rows \in {<<1, 2>>, S1Data, S1Next}}

\* the index push is called with: none (an append), the first slot, the slot right
\* after it, the nearest slot that leaves a gap, the slot of the demo
PushIndices == {None, 0, 1, 2, 4}

\* the row at index k of a source or digest, Unset where nothing is allocated
StoredRow(series, k) ==
    IF k >= 0 /\ k < Len(series.chunks) * ChunkSize THEN RowAt(series.chunks, k) ELSE Unset

\* source.push(data, index)
Push ==
    \E data \in PushData, index \in PushIndices :
        LET r == push(source, digest, data, index)
        IN  /\ source' = r.source
            /\ digest' = r.digest
            /\ last' = [Called("push", "source", r.err) EXCEPT
                           !.is_ndarray = data.is_ndarray, !.rows = data.rows,
                           !.index = index, !.triggered = r.triggered,
                           !.pre_len = source.length,
                           !.left = IF source.length = 0 THEN source.initial
                                    ELSE StoredRow(source, source.length - 1)]
            /\ UNCHANGED <<linked, root_len, inds, listening, outsideMain>>

\* linked.link(digest), with a digest whose origin and interval fit or do not
Link ==
    \E timestamp_ok \in BOOLEAN, interval_ok \in BOOLEAN :
        LET r == link(linked, digest, timestamp_ok, interval_ok)
        IN  /\ linked' = r.linked
            /\ digest' = r.digest
            /\ last' = [Called("link", "linked", r.err) EXCEPT
                           !.timestamp_ok = timestamp_ok, !.interval_ok = interval_ok]
            /\ UNCHANGED <<source, root_len, inds, listening, outsideMain>>

\* linked.unlink()
Unlink ==
    LET r == unlink(linked, digest)
    IN  /\ linked' = r.linked
        /\ digest' = r.digest
        /\ last' = Called("unlink", "linked", r.err)
        /\ UNCHANGED <<source, root_len, inds, listening, outsideMain>>

\* digest.detach()
Detach ==
    LET r == detach(source, digest)
    IN  /\ source' = r.source
        /\ digest' = r.digest
        /\ last' = Called("detach", "digest", NoError)
        /\ UNCHANGED <<linked, root_len, inds, listening, outsideMain>>

\* root.push(rows, index) with n rows, appended or replacing stored rows
RootPush ==
    \E n \in 1..MaxPush, index \in 0..root_len :
        /\ index + n <= MaxLen
        /\ LET r == root_push(root_len, inds, listening, n, index)
           IN  /\ root_len' = r.length
               /\ inds' = r.inds
               /\ last' = [Called("root_push", "root", r.err) EXCEPT
                              !.index = index, !.triggered = r.triggered,
                              !.updates = r.updates, !.pre_len = root_len]
        /\ UNCHANGED <<source, linked, digest, listening, outsideMain>>

\* indicator.dispose()
Dispose ==
    \E i \in Indicators :
        LET r == dispose(inds[i])
        IN  /\ inds' = [inds EXCEPT ![i] = r.ind]
            /\ last' = Called("dispose", i, r.err)
            /\ UNCHANGED <<source, linked, digest, root_len, listening, outsideMain>>

(***************************************************************************)
(* Indicator._tail_slice and Indicator._tail_iterate                       *)
(***************************************************************************)
\* data[lower:upper] of a sequence of rows, for 0 <= lower: the rows at the indices
\* lower .. min(upper, len(data)) - 1
Sliced(data, lower, upper) ==
    IF lower >= Min(upper, Len(data)) THEN << >>
    ELSE SubSeq(data, lower + 1, Min(upper, Len(data)))

\* Indicator._tail_slice(data, start, end, tail_size)
tail_slice(data, start, end, tail_size) ==
    Sliced(data, Max(0, start + 1 - tail_size), end)

\* Indicator._tail_iterate with the offset left out
tail_iterate_without_offset(data, start, end, tail_size) ==
    [idx \in 1..(end - start) |->
        [tail_start |-> Max(0, idx - tail_size), tail_end |-> idx,
         incomplete |-> idx - tail_size < 0, index |-> start + idx - 1]]

\* Indicator._tail_iterate(data, start, end, tail_size): the tuples it yields, in
\* order; the idx of the code is idx - 1 here
tail_iterate(data, start, end, tail_size) ==
    LET offset == Len(data) - end + start
    IN  [idx \in 1..(end - start) |->
            [tail_start |-> Max(0, idx + offset - tail_size), tail_end |-> idx + offset,
             incomplete |-> idx + offset - tail_size < 0, index |-> start + idx - 1]]

\* an upstream of n rows; each row holds its own index
Upstream(n) == [k \in 1..n |-> k - 1]

TailCall(op, upstream, start, end, tail_size, sliced, yielded) ==
    [op |-> op, upstream |-> upstream, start |-> start, end |-> end,
     tail_size |-> tail_size, sliced |-> sliced, yielded |-> yielded]

\* no call made
TailIdle == tail_last = TailCall("none", << >>, 0, 0, 1, << >>, << >>)

\* self._tail_slice(upstream, start, end, tail_size)
TailSlice ==
    \E n \in 0..MaxRows, start \in 0..MaxRows, end \in 0..MaxRows, tail_size \in 1..MaxTail :
        /\ start <= end
        /\ tail_last' = TailCall("tail_slice", Upstream(n), start, end, tail_size,
                                 tail_slice(Upstream(n), start, end, tail_size), << >>)
        /\ UNCHANGED outsideTail

\* self._tail_iterate(self._tail_slice(upstream, start, end, tail_size), start, end,
\* tail_size), as the _update methods call it
TailIterate ==
    \E n \in 0..MaxRows, start \in 0..MaxRows, end \in 0..MaxRows, tail_size \in 1..MaxTail :
        /\ start <= end
        /\ tail_last' = TailCall("tail_iterate", Upstream(n), start, end, tail_size,
                                 tail_slice(Upstream(n), start, end, tail_size),
                                 tail_iterate(tail_slice(Upstream(n), start, end, tail_size),
                                              start, end, tail_size))
        /\ UNCHANGED outsideTail

(***************************************************************************)
(* MovingMean of indicators/moving.py and Slope of indicators/slope.py,   *)
(* over one source.  Floats are kept exact: a row of the MovingMean holds  *)
(* the sum of its window, to be read as that sum divided by the tail size. *)
(***************************************************************************)
\* a float row, and numpy's NaN
Float(v) == [nan |-> FALSE, value |-> v]

NaN == [nan |-> TRUE, value |-> 0]

\* the components of a Candle a MovingMean or a Slope may read
Components == {"start", "end", "min", "max"}

\* the row a source stores for a pushed price v: the price itself, or for a source
\* of candles a candle around it whose four components differ
SourceRow(dtype, v) == IF dtype = "Candle" THEN Candle(v + 1, v + 2, v, v + 3) ELSE v

\* self._map(data, lambda c: getattr(c[0], self._candle_component), float), made
\* only when the parent is a source of candles
map_component(data, dtype, component) ==
    IF dtype = "Candle" THEN [k \in 1..Len(data) |-> data[k][component]] ELSE data

RECURSIVE Sum(_)

\* data.sum()
Sum(data) == IF data = << >> THEN 0 ELSE Head(data) + Sum(Tail(data))

\* self._data[index] = value of an indicator: rows never written hold NaN
put_row(rows, index, value) ==
    IF index < Len(rows) THEN [rows EXCEPT ![index + 1] = value]
    ELSE rows \o [k \in 1..(index - Len(rows)) |-> NaN] \o <<value>>

RECURSIVE moving_mean_rows(_, _, _, _, _, _, _)

\* the loop of MovingMean._update over idx in range(0, end - start)
moving_mean_rows(rows, data, start, end, tail_size, nan_on_short_tail, idx) ==
    IF idx >= end - start THEN rows
    ELSE LET offset == Len(data) - end + start + 1
             tail_end == idx + offset
             tail_start == tail_end - tail_size
         IN  moving_mean_rows(
                 put_row(rows, start + idx,
                         IF start + tail_start < 0 /\ nan_on_short_tail THEN NaN
                         ELSE Float(Sum(Sliced(data, Max(0, tail_start), tail_end)))),
                 data, start, end, tail_size, nan_on_short_tail, idx + 1)

\* MovingMean._update(start, end) of indicators/moving.py
moving_mean_update(rows, parent, dtype, component, start, end, tail_size, nan_on_short_tail) ==
    moving_mean_rows(rows,
                     map_component(tail_slice(parent, start, end, tail_size), dtype, component),
                     start, end, tail_size, nan_on_short_tail, 0)

\* Slope._update with the incomplete tail read from the slice, not from the initial
slope_row_without_initial(data, piece, initial) ==
    Float(data[piece.tail_end] - data[piece.tail_start + 1])

\* the row Slope._update stores for one tuple of _tail_iterate; data[k] of the code
\* is data[k + 1] here, and initial tells whether source.initial is None and holds
\* the price to subtract otherwise
slope_row(data, piece, initial) ==
    IF piece.incomplete
    THEN IF initial.is_none THEN NaN ELSE Float(data[piece.tail_end] - initial.value)
    ELSE Float(data[piece.tail_end] - data[piece.tail_start + 1])

RECURSIVE slope_rows(_, _, _, _)

\* the loop of Slope._update over the tuples of _tail_iterate
slope_rows(rows, data, yielded, initial) ==
    IF yielded = << >> THEN rows
    ELSE slope_rows(put_row(rows, Head(yielded).index, slope_row(data, Head(yielded), initial)),
                    data, Tail(yielded), initial)

\* Slope._update once the slice is mapped
slope_sliced(rows, data, start, end, initial) ==
    slope_rows(rows, data, tail_iterate(data, start, end, 2), initial)

\* Slope._update(start, end)
slope_update(rows, parent, dtype, component, start, end, initial) ==
    slope_sliced(rows, map_component(tail_slice(parent, start, end, 2), dtype, component),
                 start, end,
                 IF dtype = "Candle" THEN [initial EXCEPT !.value = @[component]] ELSE initial)

\* the source, MovingMean(source, tail_size, component, nan_on_short_tail) and
\* Slope(source, component) right after construction: no row yet; initial.is_none
\* tells a source without initial value
Series(dtype, component, initial, tail_size, nan_on_short_tail) ==
    [dtype |-> dtype, component |-> component, initial |-> initial, tail_size |-> tail_size,
     nan_on_short_tail |-> nan_on_short_tail,
     pushed |-> << >>, source |-> << >>, moving_mean |-> << >>, slope |-> << >>, batches |-> 0]

\* nothing built
SeriesIdle ==
    tailed = Series("StandardizedPrice", "end", [is_none |-> TRUE, value |-> InitialPrice], 2, TRUE)

\* the sources, tail sizes and settings the indicators are built with
SeriesInit ==
    \E dtype \in {"StandardizedPrice", "Candle"}, component \in Components,
       with_initial \in BOOLEAN, tail_size \in 2..MaxTail, nan_on_short_tail \in BOOLEAN :
        /\ dtype = "StandardizedPrice" => component = "end"
        /\ tailed = Series(dtype, component,
                           [is_none |-> ~with_initial, value |-> SourceRow(dtype, InitialPrice)],
                           tail_size, nan_on_short_tail)

\* the batches of prices a push appends
Batches == UNION {[1..n -> Values] : n \in 1..MaxPush}

\* source.push(batch) appending at len(source): the source stores the rows and the
\* MovingMean and the Slope are updated with the window (len, len + n)
AppendRows ==
    \E batch \in Batches :
        /\ Len(tailed.pushed) + Len(batch) <= MaxRows
        /\ LET start == Len(tailed.source)
               end == Len(tailed.source) + Len(batch)
               parent == tailed.source \o [k \in 1..Len(batch) |-> SourceRow(tailed.dtype, batch[k])]
           IN  tailed' = [tailed EXCEPT
                   !.pushed = @ \o batch,
                   !.source = parent,
                   !.moving_mean = moving_mean_update(@, parent, tailed.dtype, tailed.component,
                                                      start, end, tailed.tail_size,
                                                      tailed.nan_on_short_tail),
                   !.slope = slope_update(@, parent, tailed.dtype, tailed.component,
                                          start, end, tailed.initial),
                   !.batches = IF @ = 0 THEN 1 ELSE 2]
        /\ UNCHANGED outsideSeries

\* source.push(batch, index) replacing stored rows: the source overwrites the rows
\* [index, index + n) and the MovingMean and the Slope, each with the source as its
\* one dependency, are updated with the window (index, index + n)
ReplaceRows ==
    \E batch \in Batches, index \in 0..MaxRows :
        /\ index + Len(batch) <= Len(tailed.source)
        /\ LET start == index
               end == index + Len(batch)
               parent == [k \in 1..Len(tailed.source) |->
                             IF k > start /\ k <= end
                             THEN SourceRow(tailed.dtype, batch[k - start])
                             ELSE tailed.source[k]]
           IN  tailed' = [tailed EXCEPT
                   !.source = parent,
                   !.moving_mean = moving_mean_update(@, parent, tailed.dtype, tailed.component,
                                                      start, end, tailed.tail_size,
                                                      tailed.nan_on_short_tail),
                   !.slope = slope_update(@, parent, tailed.dtype, tailed.component,
                                          start, end, tailed.initial),
                   !.batches = 2]
        /\ UNCHANGED outsideSeries

(***************************************************************************)
(* Indicator.__init__ over two sources                                     *)
(***************************************************************************)
\* the sources, and the names the indicators get in the order they are constructed
RootSources == {"source1", "source2"}

IndicatorNames == <<"indicator1", "indicator2", "indicator3", "indicator4">>

\* IndicatorBroadcaster.source: a source is its own source, an indicator has the
\* one it was constructed with
source_of(indicators, broadcaster) ==
    IF broadcaster \in RootSources THEN broadcaster ELSE indicators[broadcaster].source

\* set(broadcasters)
SetOf(arguments) == {arguments[k] : k \in 1..Len(arguments)}

RECURSIVE register_on(_, _, _)

\* for broadcaster in broadcasters: broadcaster.on_refresh_indicators.register(...);
\* the set is walked in some order, here the one of CHOOSE
register_on(events, broadcasters, listener) ==
    IF broadcasters = {} THEN events
    ELSE LET broadcaster == CHOOSE b \in broadcasters : TRUE
         IN  register_on([events EXCEPT ![broadcaster] = register(@, listener)],
                         broadcasters \ {broadcaster}, listener)

\* Indicator.__init__ without the check of the sources
init_unchecked(state, name, arguments) ==
    [indicators |-> [n \in DOMAIN state.indicators \cup {name} |->
                        IF n = name
                        THEN [source |-> IF arguments = << >> THEN "none"
                                         ELSE source_of(state.indicators, arguments[1]),
                              broadcasters |-> SetOf(arguments)]
                        ELSE state.indicators[n]],
     events |-> register_on([b \in DOMAIN state.events \cup {name} |->
                                IF b = name THEN << >> ELSE state.events[b]],
                            SetOf(arguments), name),
     err |-> NoError]

\* Indicator.__init__(*broadcasters) of the indicator called name: the sources of the
\* de-duplicated broadcasters are counted before anything is assigned or registered;
\* the first refreshes find the sources empty
init(state, name, arguments) ==
    LET broadcasters == SetOf(arguments)
        sources == {source_of(state.indicators, b) : b \in broadcasters}
    IN  IF Cardinality(sources) # 1
        THEN [indicators |-> state.indicators, events |-> state.events, err |-> "ValueError"]
        ELSE [indicators |-> [n \in DOMAIN state.indicators \cup {name} |->
                                 IF n = name
                                 THEN [source |-> CHOOSE src \in sources : TRUE,
                                       broadcasters |-> broadcasters]
                                 ELSE state.indicators[n]],
              events |-> register_on([b \in DOMAIN state.events \cup {name} |->
                                         IF b = name THEN << >> ELSE state.events[b]],
                                     broadcasters, name),
              err |-> NoError]

\* the two sources, no indicator
BuildIdle ==
    built = [indicators |-> << >>, events |-> [b \in RootSources |-> << >>],
             op |-> "none", arguments |-> << >>, err |-> NoError]

\* the arguments of a constructor: up to MaxArgs broadcasters, repeated or not
Arguments(broadcasters) == UNION {[1..n -> broadcasters] : n \in 0..MaxArgs}

\* Indicator(*arguments)
Construct ==
    /\ Cardinality(DOMAIN built.indicators) < MaxBuilt
    /\ \E arguments \in Arguments(DOMAIN built.events) :
          LET r == init(built, IndicatorNames[Cardinality(DOMAIN built.indicators) + 1], arguments)
          IN  built' = [indicators |-> r.indicators, events |-> r.events,
                        op |-> "init", arguments |-> arguments, err |-> r.err]
    /\ UNCHANGED outsideBuild

(***************************************************************************)
(* events.Event: register, unregister and trigger, with listeners that     *)
(* register and unregister while the trigger runs.                        *)
(***************************************************************************)
\* the callables registered on the event
Listeners == {"first", "second"}

\* the list a running trigger walks: the live list of listeners
iterated_live(listeners, snapshot) == listeners

\* the list a running trigger walks: the snapshot taken when it started
iterated(listeners, snapshot) == snapshot

EventCall(listeners, snapshot, position, invoked, at_start, op, listener, before) ==
    [listeners |-> listeners, snapshot |-> snapshot, position |-> position,
     invoked |-> invoked, at_start |-> at_start, op |-> op, listener |-> listener,
     before |-> before]

\* Event(): no listener, no trigger running (position 0)
EventIdle == ev = EventCall(<< >>, << >>, 0, << >>, << >>, "none", "first", << >>)

\* event.register(listener), from outside or from a listener the trigger is calling
Register ==
    \E listener \in Listeners :
        /\ Len(ev.listeners) < MaxListeners
        /\ ev' = [ev EXCEPT !.listeners = register(@, listener), !.op = "register",
                            !.listener = listener, !.before = ev.listeners]
        /\ UNCHANGED outsideEvent

\* event.unregister(listener), from outside or from a listener the trigger is calling
Unregister ==
    \E listener \in Listeners :
        /\ ev' = [ev EXCEPT !.listeners = unregister(@, listener), !.op = "unregister",
                            !.listener = listener, !.before = ev.listeners]
        /\ UNCHANGED outsideEvent

\* event.trigger(...) starts
TriggerStart ==
    /\ ev.position = 0
    /\ ev' = [ev EXCEPT !.snapshot = ev.listeners, !.position = 1, !.invoked = << >>,
                        !.at_start = ev.listeners, !.op = "trigger", !.before = ev.listeners]
    /\ UNCHANGED outsideEvent

\* the running trigger calls its next listener
Invoke ==
    /\ ev.position > 0
    /\ ev.position <= Len(iterated(ev.listeners, ev.snapshot))
    /\ ev' = [ev EXCEPT !.invoked = Append(@, iterated(ev.listeners, ev.snapshot)[ev.position]),
                        !.position = @ + 1, !.op = "invoke",
                        !.listener = iterated(ev.listeners, ev.snapshot)[ev.position],
                        !.before = ev.listeners]
    /\ UNCHANGED outsideEvent

\* the running trigger has called its last listener and returns
TriggerReturn ==
    /\ ev.position > Len(iterated(ev.listeners, ev.snapshot))
    /\ ev' = [ev EXCEPT !.position = 0, !.op = "return", !.before = ev.listeners]
    /\ UNCHANGED outsideEvent

(***************************************************************************)
(* The demo of base_indicators.py as it runs: the root source is pushed    *)
(* to, then Identity(root), MovingMean(root, 2) and Merger(movmean,        *)
(* identity) are constructed over the rows it holds, and pushed to again.  *)
(***************************************************************************)
\* len(broadcaster): of the root source, or of an indicator (the rows of its _data)
len_of(ind_states, length, broadcaster) ==
    IF broadcaster \in Indicators THEN ind_states[broadcaster].max_stop ELSE length

\* the orders a set of broadcasters can be walked in
Orders(broadcasters) ==
    {order \in [1..Cardinality(broadcasters) -> broadcasters] : SetOf(order) = broadcasters}

\* Indicator.__init__ that leaves out the loop of the first refreshes
first_refresh_skipped(st, length, i, order) == st

RECURSIVE first_refresh(_, _, _, _)

\* one first refresh returned or raised: the next broadcaster's comes next; the new
\* indicator has no listener yet, so its own trigger calls nothing
first_refreshed(st, length, i, order, reported_end, r) ==
    first_refresh([inds |-> r.inds, err |-> r.err,
                   updates |-> Append(st.updates,
                                      [indicator |-> i, dependency |-> Head(order),
                                       reported_start |-> 0, reported_end |-> reported_end,
                                       dependency_len |-> reported_end,
                                       start |-> r.start, end |-> r.end, err |-> r.err])],
                  length, i, Tail(order))

\* for broadcaster in broadcasters: self._on_dependency_update(broadcaster, 0,
\* len(broadcaster)); an exception ends the constructor
first_refresh(st, length, i, order) ==
    IF order = << >> \/ st.err # NoError THEN st
    ELSE first_refreshed(st, length, i, order, len_of(st.inds, length, Head(order)),
                         on_dependency_update(st.inds, i, Head(order), 0,
                                              len_of(st.inds, length, Head(order))))

\* the root source and the digest of the demo, and no indicator yet
Unconstructed ==
    /\ source = [initial |-> None, chunks |-> << >>, max_stop |-> 0, length |-> 0,
                 linked_to |-> "None",
                 on_refresh_digests |-> register(<< >>, "digest"),
                 on_refresh_indicators |-> << >>]
    /\ linked = [initial |-> None, chunks |-> << >>, max_stop |-> 0, length |-> 0,
                 linked_to |-> "None", on_refresh_digests |-> << >>,
                 on_refresh_indicators |-> << >>]
    /\ digest = [attached |-> TRUE, chunks |-> << >>, max_stop |-> 0, length |-> 0,
                 last_source_index |-> 0 - 1, on_refresh_linked_sources |-> << >>]
    /\ root_len = 0
    /\ inds = [i \in Indicators |->
                 [disposed |-> FALSE, released |-> FALSE, chunks |-> << >>, max_stop |-> 0,
                  max_requested_start |-> [b \in Broadcasters(i) |-> 0],
                  max_requested_end |-> [b \in Broadcasters(i) |-> 0]]]
    /\ listening = [b \in Indicators \cup {"root"} |-> << >>]
    /\ last = [op |-> "init", target |-> "none", is_ndarray |-> FALSE, rows |-> << >>,
               index |-> None, err |-> NoError, triggered |-> << >>, updates |-> << >>,
               pre_len |-> 0, left |-> None, attached |-> TRUE,
               timestamp_ok |-> TRUE, interval_ok |-> TRUE]

\* the indicators constructed so far: each registered on its broadcasters
Made == {i \in Indicators : \A b \in Broadcasters(i) : i \in SetOf(listening[b])}

\* Identity(root), MovingMean(root, 2) or Merger(movmean, identity): the indicator
\* registers on each broadcaster, then makes its first refreshes in the order the
\* set of its broadcasters is walked in
ConstructOver ==
    \E i \in Indicators \ Made :
        /\ Broadcasters(i) \cap Indicators \subseteq Made
        /\ \E order \in Orders(Broadcasters(i)) :
              LET r == first_refresh([inds |-> inds, err |-> NoError, updates |-> << >>],
                                     root_len, i, order)
              IN  /\ inds' = r.inds
                  /\ listening' = register_on(listening, Broadcasters(i), i)
                  /\ last' = [Called("construct", i, r.err) EXCEPT
                                 !.updates = r.updates, !.pre_len = root_len]
        /\ UNCHANGED <<source, linked, digest, root_len, outsideMain>>

InitOfDemo == GAInit /\ TLIdle /\ CandleIdle /\ Unconstructed /\ TailIdle /\ SeriesIdle /\ BuildIdle /\ EventIdle

DemoNext == RootPush \/ ConstructOver

SpecDemo == InitOfDemo /\ [][DemoNext]_vars

HelpersIdle == TailIdle /\ SeriesIdle /\ BuildIdle /\ EventIdle

Init == GAInit /\ TLIdle /\ CandleIdle /\ MainInit /\ HelpersIdle

Next == Push \/ Link \/ Unlink \/ Detach \/ RootPush \/ Dispose

Spec == Init /\ [][Next]_vars

InitGA == GAInit /\ TLIdle /\ CandleIdle /\ MainIdle /\ HelpersIdle

GANext == SetSlice \/ SetIndex \/ GetSlice \/ GetIndex

SpecGA == InitGA /\ [][GANext]_vars

InitTL == GAInit /\ TLInit /\ CandleIdle /\ MainIdle /\ HelpersIdle

TLNext == StampFor \/ IndexFor

SpecTL == InitTL /\ [][TLNext]_vars

InitCandle == GAInit /\ TLIdle /\ CandleInit /\ MainIdle /\ HelpersIdle

CandleNext == Merge \/ Constant

SpecCandle == InitCandle /\ [][CandleNext]_vars

InitOfTail == GAInit /\ TLIdle /\ CandleIdle /\ MainIdle /\ TailIdle /\ SeriesIdle /\ BuildIdle /\ EventIdle

TailNext == TailSlice \/ TailIterate

SpecTail == InitOfTail /\ [][TailNext]_vars

InitOfSeries == GAInit /\ TLIdle /\ CandleIdle /\ MainIdle /\ TailIdle /\ SeriesInit /\ BuildIdle /\ EventIdle

SeriesNext == AppendRows

SpecSeries == InitOfSeries /\ [][SeriesNext]_vars

\* Slope(source) and MovingMean(source, 2) over a source of prices or of candles,
\* with and without an initial value
OverwriteInit ==
    \E dtype \in {"StandardizedPrice", "Candle"}, with_initial \in BOOLEAN :
        tailed = Series(dtype, "end",
                        [is_none |-> ~with_initial, value |-> SourceRow(dtype, InitialPrice)],
                        2, TRUE)

InitOfOverwrite == GAInit /\ TLIdle /\ CandleIdle /\ MainIdle /\ TailIdle /\ OverwriteInit /\ BuildIdle /\ EventIdle

OverwriteNext == AppendRows \/ ReplaceRows

SpecOverwrite == InitOfOverwrite /\ [][OverwriteNext]_vars

InitOfBuild == GAInit /\ TLIdle /\ CandleIdle /\ MainIdle /\ HelpersIdle

BuildNext == Construct

SpecBuild == InitOfBuild /\ [][BuildNext]_vars

InitOfEvent == GAInit /\ TLIdle /\ CandleIdle /\ MainIdle /\ HelpersIdle

EventNext == Register \/ Unregister \/ TriggerStart \/ Invoke \/ TriggerReturn

SpecEvent == InitOfEvent /\ [][EventNext]_vars

(***************************************************************************)
(* Claims about the GrowingArray, checked under SpecGA.                    *)
(***************************************************************************)
\* C2: after set_slice(a, b, rows) with 0 <= a < b the read get_slice(a, b) returns
\* exactly rows (within one chunk, across several chunks, or ending on a chunk
\* boundary), and every row outside [a, b) reads the same as before the write.
C2_ReadWriteIdentity ==
    [][(ga_last'.op = "set_slice" /\ ga_last'.start < ga_last'.stop) =>
          /\ ga_last'.err = NoError
          /\ getitem_slice(chunks', max_stop', ga_last'.start, ga_last'.stop).err = NoError
          /\ getitem_slice(chunks', max_stop', ga_last'.start, ga_last'.stop).out
                 = ga_last'.value
          /\ \A k \in 0..(Len(chunks) * ChunkSize - 1) :
                 (k < ga_last'.start \/ k >= ga_last'.stop) =>
                     RowAt(chunks', k) = RowAt(chunks, k)]_vars

\* C3 (as written): get(i) for an index i >= logical_length inside the allocated
\* chunks succeeds and returns fill_value.
C3_FillBeyondLength ==
    (/\ ga_last.op = "get"
     /\ ga_last.start >= ga_last.pre_stop
     /\ ga_last.start < ga_last.pre_n * ChunkSize)
        => (ga_last.err = NoError /\ ga_last.out = <<FillValue>>)

\* C3 (amended): get(i) for an index i >= logical_length, inside the allocated chunks
\* or not, fails with IndexError and changes neither the length nor the chunks.
C3_IndexErrorBeyondLength ==
    (ga_last.op = "get" /\ ga_last.start >= ga_last.pre_stop)
        => /\ ga_last.err = "IndexError"
           /\ max_stop = ga_last.pre_stop
           /\ Len(chunks) = ga_last.pre_n

\* C3 witness: a get of an allocated row at or beyond a non-zero logical length
C3_Witness ==
    /\ ga_last.op = "get"
    /\ ga_last.pre_stop > 0
    /\ ga_last.start >= ga_last.pre_stop
    /\ ga_last.start < ga_last.pre_n * ChunkSize

\* C4: logical_length is the largest stop index ever written (0 if none), the number
\* of chunks is ceil(logical_length / chunk_size), and a read changes neither.
C4_LengthAndChunks ==
    /\ max_stop = max_written
    /\ Len(chunks) = CeilDiv(max_stop, ChunkSize)
    /\ ga_last.op \in {"get", "get_slice"} =>
           (max_stop = ga_last.pre_stop /\ Len(chunks) = ga_last.pre_n)

(***************************************************************************)
(* Claims about the Timelapse, checked under SpecTL.                       *)
(***************************************************************************)
\* C5: for every Timelapse with interval > 0 and every index i >= 0,
\* index_for(stamp_for(i)) = i, and index_for(stamp_for(i) + d) = i for every
\* offset 0 <= d < interval.
C5_RoundTrip ==
    (tl_last.op = "index_for" /\ tl_last.offset < tl_interval) =>
        /\ tl_last.core = tl_last.index
        /\ QuotientEquals(tl_last.package, tl_last.index)

(***************************************************************************)
(* Claims about the Source, the Digest and the Indicators, checked under   *)
(* Spec.                                                                   *)
(***************************************************************************)
\* C1 (as written): across push, link, unlink, detach and dispose, len() of every
\* Source, every Digest and every Indicator, a disposed one included, is defined
\* and never decreases from one state to the next.
C1_LenNeverDecreases ==
    [][/\ source'.length >= source.length
       /\ linked'.length >= linked.length
       /\ digest'.length >= digest.length
       /\ root_len' >= root_len
       /\ \A i \in Indicators :
              ~inds'[i].released /\ inds'[i].max_stop >= inds[i].max_stop]_vars

\* C1 (amended): len() of every Source, every Digest and every Indicator that has
\* not been disposed never decreases; dispose() releases the data of the Indicator,
\* whose len() fails from then on.
C1_LenNeverDecreasesUntilDisposed ==
    [][/\ source'.length >= source.length
       /\ linked'.length >= linked.length
       /\ digest'.length >= digest.length
       /\ root_len' >= root_len
       /\ \A i \in Indicators :
              /\ inds'[i].released = inds'[i].disposed
              /\ inds[i].released => inds'[i].released
              /\ ~inds'[i].released => inds'[i].max_stop >= inds[i].max_stop]_vars

\* C1 witness: after pushes, one indicator is disposed and another has grown
C1_Witness ==
    /\ last.op = "root_push"
    /\ root_len >= 2
    /\ \E i \in Indicators : inds[i].disposed /\ inds[i].released
    /\ \E i \in Indicators : ~inds[i].disposed /\ inds[i].max_stop >= 2

\* C6: a push(right, index) beyond the length L of a source with an established left
\* value succeeds; then slot L reads left, slot index reads right and every slot k
\* between them is within 1 of the linear interpolation from left to right.
C6_GapInterpolation ==
    (last.op = "push" /\ last.index # None /\ last.index > last.pre_len
         /\ last.left # None)
        => /\ last.err = NoError
           /\ StoredRow(source, last.pre_len) = last.left
           /\ StoredRow(source, last.index) = last.rows[1]
           /\ \A k \in (last.pre_len + 1)..(last.index - 1) :
                  LET distance == last.index - last.pre_len
                      linear == last.left * distance
                                    + (last.rows[1] - last.left) * (k - last.pre_len)
                      stored == StoredRow(source, k) * distance
                  IN  stored - linear <= distance /\ linear - stored <= distance

\* C7: scenario S1: on an empty source with initial = 1, push([2,4,6,8,10,12,14],
\* index=4) leaves slots 0..3 = [1,1,1,2] and slots 4..10 = the data; the following
\* push([16,18,20,22]) without index writes exactly slots 11..14.
C7_ScenarioS1 ==
    /\ (last.op = "push" /\ source.initial = InitialPrice /\ last.pre_len = 0
            /\ last.is_ndarray /\ last.rows = S1Data /\ last.index = 4)
           => /\ last.err = NoError
              /\ [k \in 1..4 |-> StoredRow(source, k - 1)] = <<1, 1, 1, 2>>
              /\ [k \in 1..Len(S1Data) |-> StoredRow(source, k + 3)] = S1Data
    /\ (last.op = "push" /\ last.pre_len = 4 + Len(S1Data)
            /\ last.is_ndarray /\ last.rows = S1Next /\ last.index = None)
           => /\ last.err = NoError
              /\ [k \in 1..Len(S1Next) |-> StoredRow(source, k + 10)] = S1Next
              /\ source.max_stop = 4 + Len(S1Data) + Len(S1Next)

\* C8: a push into a gap of an empty source without initial value fails with the
\* Uninitialized RuntimeError, writes no slot, leaves the length and triggers
\* neither on_refresh_digests nor on_refresh_indicators.
C8_Uninitialized ==
    (last.op = "push" /\ source.initial = None /\ last.pre_len = 0
         /\ last.index # None /\ last.index - 1 > last.pre_len)
        => /\ last.err = "RuntimeError"
           /\ source.chunks = << >>
           /\ source.max_stop = 0
           /\ source.length = 0
           /\ last.triggered = << >>

\* C10: a push appending one sample v at index i to a source with an attached digest
\* of relative bin size r succeeds and folds v into bin i div r (an empty bin becomes
\* Candle(v,v,v,v), a non-empty bin becomes bin.merge(v)); no other bin changes.
C10_DigestFold ==
    [][(last'.op = "push" /\ digest.attached /\ ~last'.is_ndarray /\ last'.index = None)
          => LET i == last'.pre_len
                 bin == i \div BinSize
                 v == last'.rows[1]
             IN  /\ last'.err = NoError
                 /\ StoredRow(digest', bin)
                        = IF i % BinSize = 0 THEN Candle(v, v, v, v)
                          ELSE merge(StoredRow(digest, bin), constant(v))
                 /\ \A other \in 0..MaxStop :
                        other # bin => StoredRow(digest', other) = StoredRow(digest, other)]_vars

(***************************************************************************)
(* Claims about digests and links, checked under Spec.                     *)
(***************************************************************************)
\* the listeners of an event, as a set
Registered(listeners) == {listeners[k] : k \in 1..Len(listeners)}

\* C11: once Digest.detach() has run, attached is false for good: no operation sets
\* it back, the source no longer holds the digest's handler, and whatever is pushed
\* afterwards leaves the digest's bins, length and last_source_index as they were
\* (so its _on_refresh, which ends by triggering on_refresh_linked_sources, never
\* runs again).
C11_DetachIsTerminal ==
    [][~digest.attached =>
          /\ ~digest'.attached
          /\ "digest" \notin Registered(source.on_refresh_digests)
          /\ "digest" \notin Registered(source'.on_refresh_digests)
          /\ digest'.chunks = digest.chunks
          /\ digest'.max_stop = digest.max_stop
          /\ digest'.length = digest.length
          /\ digest'.last_source_index = digest.last_source_index]_vars

\* a push that follows the detach
C11_Witness == ~digest.attached /\ last.op = "push" /\ ~last.attached

(***************************************************************************)
(* Claims about Candle, checked under SpecCandle.                          *)
(***************************************************************************)
\* C12: merge(a, b) is (start = a.start, max = max(a.max, b.max), min = min(a.min,
\* b.min), end = b.end); it is associative, merge(merge(a, b), c) = merge(a,
\* merge(b, c)); when a and b both satisfy min <= start, end <= max so does
\* merge(a, b); and constant(v) has its four components equal to v.
C12_MergeAlgebra ==
    /\ cd_last.op = "merge" =>
          /\ cd_last.out.start = cd_last.a.start
          /\ cd_last.out.end = cd_last.b.end
          /\ cd_last.out.max = Max(cd_last.a.max, cd_last.b.max)
          /\ cd_last.out.min = Min(cd_last.a.min, cd_last.b.min)
          /\ cd_last.left = cd_last.right
          /\ (IsCandle(cd_last.a) /\ IsCandle(cd_last.b)) => IsCandle(cd_last.out)
    /\ cd_last.op = "constant" =>
          /\ cd_last.out.start = cd_last.value
          /\ cd_last.out.end = cd_last.value
          /\ cd_last.out.min = cd_last.value
          /\ cd_last.out.max = cd_last.value

\* two different well-formed candles were merged into a third, and then with another
C12_Witness ==
    /\ cd_last.op = "merge"
    /\ IsCandle(cd_last.a) /\ IsCandle(cd_last.b) /\ IsCandle(cd_last.c)
    /\ cd_last.out # cd_last.a /\ cd_last.out # cd_last.b
    /\ cd_last.left # cd_last.out

\* how many times a listener is registered on an event
RECURSIVE Registrations(_, _)

Registrations(listeners, listener) ==
    IF listeners = << >> THEN 0
    ELSE (IF Head(listeners) = listener THEN 1 ELSE 0) + Registrations(Tail(listeners), listener)

\* C13: linked.link(digest) with digest.interval < linked.interval or digest.timestamp
\* < linked.timestamp fails with the interval-mismatch error (ValueError) and mutates
\* nothing: linked stays linked and subscribed to whatever it was before the call.
C13_MismatchRejected ==
    [][(last'.op = "link" /\ ~(last'.timestamp_ok /\ last'.interval_ok)) =>
          /\ last'.err = "ValueError"
          /\ linked' = linked
          /\ digest' = digest]_vars

\* C14: every link and unlink call succeeds, whatever the calls before it, and after
\* it the handler of linked is registered exactly once on the digest linked_to names,
\* and on no digest when linked_to is empty.
C14_AtMostOneSubscription ==
    /\ (last.op = "unlink" \/ (last.op = "link" /\ last.timestamp_ok /\ last.interval_ok)) =>
          last.err = NoError
    /\ Registrations(digest.on_refresh_linked_sources, "linked")
          = (IF linked.linked_to = "digest" THEN 1 ELSE 0)

\* C15: right after linked.link(digest) returns, linked[base + i] = digest[i] for
\* every i in [0, len(digest)), base being linked.index_for(digest.timestamp) (0 for
\* a digest of the same origin).
C15_LinkMirrors ==
    (last.op = "link" /\ last.timestamp_ok /\ last.interval_ok) =>
        /\ last.err = NoError
        /\ linked.linked_to = "digest"
        /\ linked.length >= digest.length
        /\ \A i \in 0..(digest.length - 1) : StoredRow(linked, i) = StoredRow(digest, i)

\* C16: scenario S6. While linked is linked to the digest a push to the source
\* updates the digest and then linked; unlink() succeeds and from then on pushes
\* leave linked unchanged; a later link(digest) succeeds and leaves linked linked.
C16_ScenarioS6 ==
    [][/\ (last'.op = "push" /\ linked.linked_to = "digest") =>
              /\ last'.err = NoError
              /\ \A i \in 0..(digest'.length - 1) : StoredRow(linked', i) = StoredRow(digest', i)
       /\ (last'.op = "push" /\ linked.linked_to = "None") => linked' = linked
       /\ last'.op = "unlink" =>
              /\ last'.err = NoError
              /\ linked'.linked_to = "None"
              /\ linked'.chunks = linked.chunks /\ linked'.length = linked.length
       /\ (last'.op = "link" /\ last'.timestamp_ok /\ last'.interval_ok) =>
              /\ last'.err = NoError
              /\ linked'.linked_to = "digest"]_vars

(***************************************************************************)
(* Claims about the indicators, checked under Spec.                        *)
(***************************************************************************)
\* the _update calls a root push made, in the order they were made
UpdateLog == last.updates

\* the running maximum an indicator holds for one dependency once the k-th call of
\* the log has taken its report in: the maximum before the push (0 at first) and
\* the reports of that dependency up to the k-th call
RunningMax(before, reports) ==
    CHOOSE m \in {before} \cup reports : \A r \in {before} \cup reports : r <= m

MaxRequestedEnd(before, log, k, i, d) ==
    RunningMax(before[i].max_requested_end[d],
               {log[j].reported_end : j \in {n \in 1..k : log[n].indicator = i /\ log[n].dependency = d}})

MaxRequestedStart(before, log, k, i, d) ==
    RunningMax(before[i].max_requested_start[d],
               {log[j].reported_start : j \in {n \in 1..k : log[n].indicator = i /\ log[n].dependency = d}})

\* the reports the log accounts for: one to each listener of the root, one to each
\* listener of an indicator per _update that indicator completed
Reports(log, events, i) ==
    Registrations(events["root"], i)
        + Cardinality({n \in 1..Len(log) : log[n].err = NoError
                                            /\ Registrations(events[log[n].indicator], i) = 1})

\* C17: every report (d, s, e) to an indicator with dependency set D makes exactly one
\* _update call, with start = min(min over D of max_requested_start, s) and end =
\* min(min over D of max_requested_end, e), the running maxima starting at 0 and
\* taking the report in first; so _update is never called with an end beyond the
\* smallest max_requested_end over D.
C17_CoalescedWindow ==
    [][last'.op = "root_push" =>
          /\ \A k \in 1..Len(last'.updates) :
                LET call == last'.updates[k]
                    ends == [d \in Broadcasters(call.indicator) |->
                                MaxRequestedEnd(inds, last'.updates, k, call.indicator, d)]
                    starts == [d \in Broadcasters(call.indicator) |->
                                  MaxRequestedStart(inds, last'.updates, k, call.indicator, d)]
                IN  /\ call.dependency \in Broadcasters(call.indicator)
                    /\ call.end = Min(MinOf(ends), call.reported_end)
                    /\ call.start = Min(MinOf(starts), call.reported_start)
                    /\ \A d \in Broadcasters(call.indicator) : call.end <= ends[d]
          /\ last'.err = NoError =>
                \A i \in Indicators :
                    Cardinality({n \in 1..Len(last'.updates) : last'.updates[n].indicator = i})
                        = Reports(last'.updates, listening, i)
          /\ \A i \in Indicators : \A d \in Broadcasters(i) :
                /\ inds'[i].max_requested_end[d]
                      = MaxRequestedEnd(inds, last'.updates, Len(last'.updates), i, d)
                /\ inds'[i].max_requested_start[d]
                      = MaxRequestedStart(inds, last'.updates, Len(last'.updates), i, d)]_vars

\* a report whose window was cut: the merger hears of rows its other dependency has
\* not reported yet
C17_Witness ==
    /\ last.op = "root_push"
    /\ \E k \in 1..Len(UpdateLog) :
          /\ UpdateLog[k].indicator = "merger"
          /\ UpdateLog[k].end < UpdateLog[k].reported_end
    /\ \E k \in 1..Len(UpdateLog) :
          /\ UpdateLog[k].indicator = "merger"
          /\ UpdateLog[k].start < UpdateLog[k].end

\* the direct and transitive subscribers of an indicator
RECURSIVE Descendants(_, _)

Descendants(events, i) ==
    Registered(events[i]) \cup UNION {Descendants(events, j) : j \in Registered(events[i])}

\* C18: after A.dispose() returns, A and every direct or transitive subscriber of A
\* is disposed (and reads of any of them fail with the disposed error).
C18_DisposeCascades ==
    last.op = "dispose" =>
        /\ last.err = NoError
        /\ inds[last.target].disposed
        /\ \A j \in Descendants(listening, last.target) : inds[j].disposed

\* C19: dispose() is idempotent, a second call succeeds, changes nothing and
\* cascades to nobody; and the first call succeeds and leaves a subscriber that has
\* two parents (the merger) disposed, whichever parent it was reached through.
C19_DisposeIdempotent ==
    [][last'.op = "dispose" =>
          /\ last'.err = NoError
          /\ inds[last'.target].disposed => inds' = inds
          /\ (~inds[last'.target].disposed /\ "merger" \in Registered(listening[last'.target])) =>
                /\ ~inds["merger"].disposed => inds'["merger"].disposed
                /\ \A j \in Indicators \ ({last'.target} \cup Descendants(listening, last'.target)) :
                      inds'[j] = inds[j]]_vars

\* C20: on every report an indicator finishes _update(start, end) before it triggers
\* its own on_refresh_indicators, and it re-broadcasts exactly the window it updated:
\* whenever a subscriber is called with a window of an indicator, that indicator
\* completed an _update of exactly that window just before, in the same push, and
\* its length reaches the end of a non-empty window; and every completed _update of an indicator with a subscriber is
\* followed at once by the subscriber's call with that window.
C20_UpdateBeforeBroadcast ==
    last.op = "root_push" =>
        /\ \A k \in 1..Len(UpdateLog) :
              UpdateLog[k].dependency \in Indicators =>
                  /\ UpdateLog[k].reported_start < UpdateLog[k].reported_end =>
                         UpdateLog[k].dependency_len >= UpdateLog[k].reported_end
                  /\ k > 1
                  /\ UpdateLog[k - 1].indicator = UpdateLog[k].dependency
                  /\ UpdateLog[k - 1].err = NoError
                  /\ UpdateLog[k - 1].start = UpdateLog[k].reported_start
                  /\ UpdateLog[k - 1].end = UpdateLog[k].reported_end
        /\ \A j \in 1..Len(UpdateLog) :
              (UpdateLog[j].err = NoError /\ listening[UpdateLog[j].indicator] # << >>) =>
                  /\ j < Len(UpdateLog)
                  /\ UpdateLog[j + 1].indicator = Head(listening[UpdateLog[j].indicator])
                  /\ UpdateLog[j + 1].dependency = UpdateLog[j].indicator
                  /\ UpdateLog[j + 1].reported_start = UpdateLog[j].start
                  /\ UpdateLog[j + 1].reported_end = UpdateLog[j].end

\* the merger is told of rows its dependency has just written
C20_Witness ==
    /\ last.op = "root_push"
    /\ \E k \in 1..Len(UpdateLog) :
          /\ UpdateLog[k].indicator = "merger"
          /\ UpdateLog[k].dependency \in Indicators
          /\ UpdateLog[k].reported_start < UpdateLog[k].reported_end
          /\ UpdateLog[k].err = NoError

(***************************************************************************)
(* Claims about the tail helpers, checked under SpecTail.                  *)
(***************************************************************************)
\* C22: for 0 <= start <= end, a tail size T >= 1 and an upstream of at least end
\* rows, tail_slice returns the upstream rows [max(0, start + 1 - T), end), and
\* tail_iterate over that slice yields one tuple (ls, le, incomplete, i) for each i
\* in [start, end), in increasing order, whose local range [ls, le) is the global
\* range [max(0, i + 1 - T), i + 1) and whose incomplete flag is true exactly when
\* i + 1 < T.
C22_TailWindows ==
    (tail_last.op # "none" /\ Len(tail_last.upstream) >= tail_last.end) =>
        LET first == Max(0, tail_last.start + 1 - tail_last.tail_size)
        IN  /\ Len(tail_last.sliced) = tail_last.end - first
            /\ \A k \in 1..Len(tail_last.sliced) :
                  tail_last.sliced[k] = tail_last.upstream[first + k]
            /\ tail_last.op = "tail_iterate" =>
                  /\ Len(tail_last.yielded) = tail_last.end - tail_last.start
                  /\ \A k \in 1..Len(tail_last.yielded) :
                        LET i == tail_last.start + k - 1
                            piece == tail_last.yielded[k]
                        IN  /\ piece.index = i
                            /\ first + piece.tail_start = Max(0, i + 1 - tail_last.tail_size)
                            /\ first + piece.tail_end = i + 1
                            /\ piece.incomplete <=> (i + 1 < tail_last.tail_size)

\* an iteration that starts past row 0 and yields a short tail and a full one
C22_Witness ==
    /\ tail_last.op = "tail_iterate"
    /\ Len(tail_last.upstream) >= tail_last.end
    /\ tail_last.start > 0
    /\ \E k \in 1..Len(tail_last.yielded) : tail_last.yielded[k].incomplete
    /\ \E k \in 1..Len(tail_last.yielded) : ~tail_last.yielded[k].incomplete

(***************************************************************************)
(* Claims about MovingMean and Slope, checked under SpecSeries.            *)
(***************************************************************************)
\* the series x the indicators read: the pushed prices, or the chosen component of
\* the pushed candles
ParentSeries == map_component(tailed.source, tailed.dtype, tailed.component)

\* C23: for a MovingMean of tail size T >= 2 with nan_on_short_tail, after contiguous
\* append pushes in whatever batches, every index i < len holds NaN when i + 1 < T and
\* otherwise sum(x[i - T + 1 .. i]) / T.
C23_MovingMean ==
    tailed.nan_on_short_tail =>
        /\ Len(tailed.moving_mean) = Len(tailed.source)
        /\ \A i \in 0..(Len(tailed.source) - 1) :
              tailed.moving_mean[i + 1]
                  = IF i + 1 < tailed.tail_size THEN NaN
                    ELSE Float(Sum(SubSeq(ParentSeries, i - tailed.tail_size + 2, i + 1)))

\* C24: for a Slope over x, after contiguous append pushes in whatever batches,
\* out[i] = x[i] - x[i - 1] for 1 <= i < len, and out[0] is x[0] - initial (the chosen
\* component of it for a source of candles) when the source has an initial value and
\* NaN when it has none.
C24_Slope ==
    /\ Len(tailed.slope) = Len(tailed.source)
    /\ \A i \in 0..(Len(tailed.source) - 1) :
          tailed.slope[i + 1]
              = IF i > 0 THEN Float(ParentSeries[i + 1] - ParentSeries[i])
                ELSE IF tailed.initial.is_none THEN NaN
                ELSE IF tailed.dtype = "Candle"
                THEN Float(ParentSeries[1] - tailed.initial.value[tailed.component])
                ELSE Float(ParentSeries[1] - tailed.initial.value)

\* a source of candles with an initial value, three rows or more, pushed in batches
C24_Witness ==
    /\ tailed.dtype = "Candle"
    /\ ~tailed.initial.is_none
    /\ tailed.batches = 2
    /\ Len(tailed.slope) >= 3
    /\ \E i \in 1..Len(tailed.slope) : tailed.slope[i].value # 0

\* C35: for a Slope over a source, after gap-free pushes that append rows or
\* overwrite stored ones, out[i] = x[i] - x[i - 1] for every 1 <= i < len(source),
\* x being the source's current rows; the row just past an overwritten window
\* follows the new last row of the window.
C35_SlopeAfterOverwrite ==
    /\ Len(tailed.slope) = Len(tailed.source)
    /\ \A i \in 1..(Len(tailed.source) - 1) :
          tailed.slope[i + 1] = Float(ParentSeries[i + 1] - ParentSeries[i])

(***************************************************************************)
(* Claims about the construction of indicators, checked under SpecBuild.   *)
(***************************************************************************)
\* the root sources the de-duplicated arguments of the last constructor resolve to,
\* in the state the constructor was called in
RootsOfArguments ==
    {source_of(built.indicators, b) : b \in SetOf(built'.arguments)}

\* C25: a construction succeeds only when its de-duplicated broadcasters resolve to
\* exactly one root source; with two or more roots, or with no broadcaster, it fails
\* with the heterogeneous-sources error (ValueError) and registers no listener and
\* adds no indicator; so every indicator has all its dependencies under its one root.
C25_OneRootSource ==
    [][built'.op = "init" =>
          /\ IF Cardinality(RootsOfArguments) = 1
             THEN /\ built'.err = NoError
                  /\ DOMAIN built'.indicators # DOMAIN built.indicators
             ELSE /\ built'.err = "ValueError"
                  /\ built'.indicators = built.indicators
                  /\ built'.events = built.events
          /\ \A n \in DOMAIN built'.indicators :
                /\ built'.indicators[n].source \in RootSources
                /\ built'.indicators[n].broadcasters # {}
                /\ \A b \in built'.indicators[n].broadcasters :
                      /\ source_of(built'.indicators, b) = built'.indicators[n].source
                      /\ Registrations(built'.events[b], n) = 1]_vars

\* a construction over broadcasters of two sources was refused while indicators on
\* each source exist
C25_Witness ==
    /\ built.op = "init"
    /\ built.err = "ValueError"
    /\ built.arguments # << >>
    /\ \E n \in DOMAIN built.indicators : n \in SetOf(built.arguments)
    /\ {built.indicators[n].source : n \in DOMAIN built.indicators} = RootSources

(***************************************************************************)
(* Claims about Event, checked under SpecEvent.                            *)
(***************************************************************************)
\* a list of listeners with its k-th entry taken out
Without(listeners, k) ==
    [j \in 1..(Len(listeners) - 1) |-> IF j < k THEN listeners[j] ELSE listeners[j + 1]]

\* C26: while listeners register and unregister listeners during a running trigger,
\* the trigger calls the listeners registered when it started, each registration
\* once and in registration order, and none registered meanwhile: what it has called
\* is always a prefix of that list and, when it returns, the whole of it; and
\* unregister removes exactly one occurrence of a listener registered twice (and
\* nothing when it is not registered).
C26_TriggerWalksSnapshot ==
    [][/\ ev'.position > 0 =>
             /\ Len(ev'.invoked) = ev'.position - 1
             /\ Len(ev'.invoked) <= Len(ev'.at_start)
             /\ ev'.invoked = SubSeq(ev'.at_start, 1, Len(ev'.invoked))
       /\ ev'.op = "return" => ev'.invoked = ev'.at_start
       /\ ev'.op = "unregister" =>
             IF ev'.listener \in SetOf(ev.listeners)
             THEN /\ Registrations(ev'.listeners, ev'.listener)
                        = Registrations(ev.listeners, ev'.listener) - 1
                  /\ \E k \in 1..Len(ev.listeners) :
                        /\ ev.listeners[k] = ev'.listener
                        /\ ev'.listeners = Without(ev.listeners, k)
             ELSE ev'.listeners = ev.listeners]_vars

\* a trigger returned after its listeners unregistered one of the listeners it was
\* still to call and registered another, and a listener registered twice lost one
\* registration
C26_Witness ==
    /\ ev.op = "return"
    /\ Len(ev.at_start) >= 2
    /\ Len(ev.listeners) >= 1
    /\ SetOf(ev.listeners) # SetOf(ev.at_start)
    /\ Registrations(ev.at_start, "first") = 2
    /\ Registrations(ev.listeners, "first") = 1

(***************************************************************************)
(* Further claims about the package Source and Digest, checked under Spec. *)
(***************************************************************************)
\* C21: when a push on a source with an attached digest has returned, the
\* propagation is complete and was depth-first: the push succeeded,
\* on_refresh_digests was triggered before on_refresh_indicators, each once with the
\* pushed window, and the digest has already folded the window (its
\* last_source_index has reached the window's last slot).
C21_PushPropagates ==
    (last.op = "push" /\ last.attached /\ digest.attached /\ last.rows # << >>) =>
        LET s == IF last.index = None THEN last.pre_len ELSE last.index
            e == s + Len(last.rows)
        IN  /\ last.err = NoError
            /\ last.triggered = <<[event |-> "on_refresh_digests", start |-> s, end |-> e],
                                  [event |-> "on_refresh_indicators", start |-> s, end |-> e]>>
            /\ digest.last_source_index >= e - 1

\* C27: a push of n rows at an index k below the length (here index 0, right after
\* an appending push) succeeds, overwrites exactly the slots [k, k + n), leaves every
\* other slot unchanged, sets the length to max(len, k + n) and notifies the digests
\* and the indicators once each with the window (k, k + n).
C27_ReplaceOverwrites ==
    [][(last.op = "push" /\ last.index = None /\ last'.op = "push" /\ last'.index = 0) =>
          LET n == Len(last'.rows)
          IN  /\ last'.err = NoError
              /\ source.length >= 1
              /\ \A k \in 0..MaxStop :
                    StoredRow(source', k) = IF k < n THEN last'.rows[k + 1]
                                            ELSE StoredRow(source, k)
              /\ source'.length = Max(source.length, n)
              /\ last'.triggered = <<[event |-> "on_refresh_digests", start |-> 0, end |-> n],
                                     [event |-> "on_refresh_indicators", start |-> 0, end |-> n]>>]_vars

(***************************************************************************)
(* A further claim about support.chunked_slicing, checked under SpecGA on   *)
(* the slices the GrowingArray calls pass to it.                            *)
(***************************************************************************)
\* C28: for 0 <= slice_start < slice_stop the pieces chunked_slicing yields partition
\* the range: the data ranges are consecutive from 0 and end at slice_stop -
\* slice_start, the chunk indices strictly increase, each piece has 0 <= chunk_lo <
\* chunk_hi <= chunk_size, equal data and chunk lengths, and chunk * chunk_size +
\* chunk_lo = slice_start + data_lo; no piece is empty.
C28_SlicingPartitions ==
    (ga_last.op \in {"set_slice", "get_slice"} /\ ga_last.start < ga_last.stop) =>
        LET pieces == chunked_slicing(ga_last.start, ga_last.stop, ChunkSize)
        IN  /\ Len(pieces) >= 1
            /\ pieces[1].data_indices[1] = 0
            /\ pieces[Len(pieces)].data_indices[2] = ga_last.stop - ga_last.start
            /\ \A p \in 1..(Len(pieces) - 1) :
                   /\ pieces[p + 1].data_indices[1] = pieces[p].data_indices[2]
                   /\ pieces[p + 1].chunk > pieces[p].chunk
            /\ \A p \in 1..Len(pieces) :
                   /\ 0 <= pieces[p].chunk_indices[1]
                   /\ pieces[p].chunk_indices[1] < pieces[p].chunk_indices[2]
                   /\ pieces[p].chunk_indices[2] <= ChunkSize
                   /\ pieces[p].data_indices[2] - pieces[p].data_indices[1]
                          = pieces[p].chunk_indices[2] - pieces[p].chunk_indices[1]
                   /\ pieces[p].chunk * ChunkSize + pieces[p].chunk_indices[1]
                          = ga_last.start + pieces[p].data_indices[1]

\* C29: a push at an index beyond the length L of a source that has an initial
\* value (index = L + 1 included) succeeds and leaves no slot of [L, index) holding
\* the fill value or unallocated: each was written by the interpolation.
C29_NoUnwrittenSlot ==
    (last.op = "push" /\ source.initial # None /\ last.index # None
         /\ last.index > last.pre_len)
        => /\ last.err = NoError
           /\ \A k \in last.pre_len..(last.index - 1) :
                  StoredRow(source, k) \notin {FillValue, Unset}

\* C30: a push with a non-empty window [s, e) on a source with an attached digest of
\* relative bin size r succeeds and folds exactly the bins of the window
\* (s div r, (e + r - 1) div r) fired on on_refresh_linked_sources: every bin of the
\* window holds a candle afterwards, no bin outside it changes, and
\* last_source_index becomes max(last_source_index, e - 1).
C30_DigestWindow ==
    [][(last'.op = "push" /\ digest.attached /\ last'.rows # << >>) =>
          LET s == IF last'.index = None THEN last'.pre_len ELSE last'.index
              e == s + Len(last'.rows)
              min_index == s \div BinSize
              max_index == (e + BinSize - 1) \div BinSize
          IN  /\ last'.err = NoError
              /\ digest'.last_source_index = Max(digest.last_source_index, e - 1)
              /\ \A bin \in min_index..(max_index - 1) :
                     StoredRow(digest', bin) \notin {FillValue, Unset, None}
              /\ \A bin \in 0..(max_index + 1) :
                     (bin < min_index \/ bin >= max_index) =>
                         StoredRow(digest', bin) = StoredRow(digest, bin)]_vars

\* C32: once dispose() was called on an indicator, the indicator is registered on
\* none of its upstream broadcasters, and no later push calls its _update or its
\* trigger: no entry of a push's update log names a disposed indicator.
C32_DisposedIsSilent ==
    /\ \A i \in Indicators :
          inds[i].disposed =>
              \A b \in Broadcasters(i) : Registrations(listening[b], i) = 0
    /\ last.op = "root_push" =>
          \A k \in 1..Len(UpdateLog) : ~inds[UpdateLog[k].indicator].disposed

\* C33: a push beyond the length of a source that has an initial value succeeds, is
\* notified once to on_refresh_digests and once to on_refresh_indicators, and every
\* slot whose stored value changed during the push, the interpolated ones included,
\* lies inside the notified window.
C33_WindowCoversWrites ==
    [][(last'.op = "push" /\ source.initial # None /\ last'.index # None
            /\ last'.index > last'.pre_len) =>
          /\ last'.err = NoError
          /\ Len(last'.triggered) = 2
          /\ \A k \in 0..(MaxStop + Len(last'.rows)) :
                StoredRow(source', k) # StoredRow(source, k) =>
                    \A n \in 1..Len(last'.triggered) :
                        /\ last'.triggered[n].start <= k
                        /\ k < last'.triggered[n].end]_vars

\* the left-to-right merge of the rows [lower, upper) of a source, lower < upper
RECURSIVE MergedRows(_, _, _)

MergedRows(src, lower, upper) ==
    IF upper = lower + 1 THEN constant(StoredRow(src, lower))
    ELSE merge(MergedRows(src, lower, upper - 1), constant(StoredRow(src, upper - 1)))

\* C34: every push on a source whose digest was attached while the source was empty
\* succeeds and leaves every bin b of the digest equal to the left-to-right merge of
\* the source's current rows in [b*r, min((b+1)*r, len(source))): no overwritten
\* row is retained and no row is counted twice.
C34_BinsAreMergesOfRows ==
    [][(last'.op = "push" /\ digest.attached) =>
          /\ last'.err = NoError
          /\ source'.length >= Len(last'.rows)
          /\ \A bin \in 0..MaxStop :
                LET lower == bin * BinSize
                    upper == Min((bin + 1) * BinSize, source'.length)
                IN  lower < upper =>
                        StoredRow(digest', bin) = MergedRows(source', lower, upper)]_vars

round(interval, timestamp) == timestamp - (timestamp % interval)

\* C39: the source row i, which Digest._on_refresh folds into the bin i // r, has
\* its time stamp source.stamp_for(i) inside [digest.stamp_for(bin),
\* digest.stamp_for(bin + 1)), the digest's origin being interval.round of the
\* source's origin, aligned to the digest interval or not.
C39_BinsFollowTimestamps ==
    tl_last.op = "stamp_for" =>
        LET digest_interval == BinSize * tl_interval
            digest_timestamp == round(digest_interval, tl_timestamp)
            digest_index == FloorDivFloat(tl_last.index, relative_bin_size).value
        IN  /\ stamp_for(digest_timestamp, digest_interval, digest_index) <= tl_last.stamp
            /\ tl_last.stamp < stamp_for(digest_timestamp, digest_interval, digest_index + 1)

(***************************************************************************)
(* Claims about the indicators of the demo, checked under SpecDemo.        *)
(***************************************************************************)
\* C31: an indicator constructed over dependencies that hold data registers once on
\* every dependency and reports (d, 0, len(d)) once for each dependency d; when the
\* constructor returns, its last _update call was for the window (0, min over the
\* dependencies of len(d)) and its rows [0, that minimum) are written.
C31_ConstructorHydrates ==
    [][last'.op = "construct" =>
          LET i == last'.target
              lens == [d \in Broadcasters(i) |-> len_of(inds, root_len, d)]
              log == last'.updates
          IN  /\ last'.err = NoError
              /\ \A d \in Broadcasters(i) : Registrations(listening'[d], i) = 1
              /\ Len(log) = Cardinality(Broadcasters(i))
              /\ {log[k].dependency : k \in 1..Len(log)} = Broadcasters(i)
              /\ \A k \in 1..Len(log) :
                    /\ log[k].indicator = i
                    /\ log[k].reported_start = 0
                    /\ log[k].reported_end = lens[log[k].dependency]
              /\ log[Len(log)].start = 0
              /\ log[Len(log)].end = MinOf(lens)
              /\ inds'[i].max_stop = MinOf(lens)
              /\ \A k \in 0..(MinOf(lens) - 1) : StoredRow(inds'[i], k) = Written]_vars

\* the merger was constructed over a moving mean and an identity that hold rows
C31_Witness ==
    /\ last.op = "construct"
    /\ last.target = "merger"
    /\ Len(last.updates) = 2
    /\ last.updates[1].end = 0
    /\ last.updates[2].end >= 2
    /\ inds["merger"].max_stop >= 2

\* the entries of the last push's update log that belong to indicator i
UpdatesOf(i) == {k \in 1..Len(UpdateLog) : UpdateLog[k].indicator = i}

\* C36: when a push of the window [s, e) on the root source returns, every indicator
\* of the graph (the diamond Merger(MovingMean(source), Identity(source)) or the part
\* of it constructed so far) was updated during the push, and the last _update call
\* it had was for a window [s', e') with s' <= s and e' >= e.
C36_EveryIndicatorRefreshed ==
    last.op = "root_push" =>
        /\ last.err = NoError
        /\ \A i \in Made :
              /\ UpdatesOf(i) # {}
              /\ \A k \in UpdatesOf(i) :
                    (\A j \in UpdatesOf(i) : j <= k) =>
                        /\ UpdateLog[k].start <= last.triggered[1].start
                        /\ UpdateLog[k].end >= last.triggered[1].end

\* a push that overwrote stored rows of a source the whole diamond listens to: the
\* merger was called twice, and its first call was cut short of the window's end
C36_Witness ==
    /\ last.op = "root_push"
    /\ Made = Indicators
    /\ last.triggered[1].start > 0
    /\ Cardinality(UpdatesOf("merger")) = 2
    /\ \E k \in UpdatesOf("merger") : UpdateLog[k].end < last.triggered[1].end

\* C37: whenever the window reported to an indicator satisfies 0 <= start <= end, the
\* window the indicator passes to _update and re-broadcasts satisfies 0 <= start <=
\* end too, with one dependency or two and in whatever order the reports come.
C37_WindowsStayOrdered ==
    \A k \in 1..Len(UpdateLog) :
        (0 <= UpdateLog[k].reported_start
             /\ UpdateLog[k].reported_start <= UpdateLog[k].reported_end) =>
            /\ 0 <= UpdateLog[k].start
            /\ UpdateLog[k].start <= UpdateLog[k].end

\* a push that overwrote rows below the largest start the indicators had heard of:
\* the merger was told of the window by each of its two dependencies
C37_Witness ==
    /\ last.op = "root_push"
    /\ Made = Indicators
    /\ \A i \in Indicators : \A d \in Broadcasters(i) :
          inds[i].max_requested_start[d] > last.triggered[1].start
    /\ Cardinality(UpdatesOf("merger")) = 2
    /\ \A k \in UpdatesOf("merger") : UpdateLog[k].start < UpdateLog[k].end

====
